---- MODULE Spec2Model ----
(***************************************************************************)
(* Model of the two batching engines of doctown:                           *)
(*   - EmbeddingModel (workers/embedding/app/model.py): the adaptive       *)
(*     batch controller around the vectorization primitive _embed_batch;   *)
(*   - embed_chunks_serverless (builder/handler_serverless.py): the        *)
(*     orchestrator that submits one remote job per batch and polls.       *)
(* Texts and chunks are identified by their position in the input list.    *)
(***************************************************************************)
EXTENDS Integers, Sequences, FiniteSets, TLC

\* ------------------------------------------------------------------ bounds
\* Longest input list handed to embed.
MaxTexts == 5
\* Number of embed calls made on one EmbeddingModel instance.
MaxCalls == 2
\* Largest configured settings.min_batch_size.
MaxMinBatch == 2
\* Largest configured settings.max_batch_size.
MaxMaxBatch == 8

\* Length of the long input handed to embed once the batch size is at its
\* maximum: two full sub-batches of the shipped max_batch_size.
LongTexts == 16

\* Length of the input handed to embed on the fresh worker: ten sub-batches
\* of the batch size the worker starts with.
GcTexts == 10

\* Most chunks handed to embed_chunks_serverless.
MaxChunks == 5
\* Largest configured EMBEDDING_BATCH_SIZE (the other one is 1).
MaxBatchSize == 2
\* Largest configured EMBEDDING_MAX_CONCURRENT (the other one is 1).
MaxConcurrent == 2
\* Largest configured EMBEDDING_TIMEOUT, in poll intervals (the other one is 0).
MaxTimeout == 2
\* Most contexts handed to generate_batch.
MaxContexts == 3
\* Largest max_concurrent of a DocumentationGenerator.
MaxGenConcurrent == 2
\* Largest max_retries an OpenAIClient is constructed with.
MaxRetries == 3

\* Handler invocations of one ingest worker.
MaxInvocations == 3
\* Health polls of one start-up thread before it gives up (max_attempts, 30
\* in the program).
MaxAttempts == 2

\* Most batches (remote jobs) of one orchestration: one more than the widest
\* polling window, so that a job can be left outside the window.
MaxJobs == MaxConcurrent + 1

\* ------------------------------------------------------- program constants
\* settings.min_batch_size as shipped (config.py).
DefaultMinBatch == 1
\* settings.max_batch_size as shipped (config.py).
DefaultMaxBatch == 8
\* The additive grow step of _adjust_batch_size.
GrowStep == 4
\* The divisor of the shrink step of _adjust_batch_size.
ShrinkDiv == 2

\* The period of the forced gc.collect() of the sub-batch loop.
GcEvery == 10

\* settings.max_retries as shipped (generation/app/config.py).
DefaultMaxRetries == 3

\* stop_after_attempt(3) of the retry decorator of generate_documentation.
StopAfterAttempt == 3

\* EmbeddingJob.job_id of a batch whose submission failed ("").
EmptyJobId == 0
\* One EMBEDDING_POLL_INTERVAL, the unit of time.
PollInterval == 1

\* The value of failAbove for a primitive that may fail on any call.
Arbitrary == 0 - 1

VARIABLES
    min_batch_size,      \* settings.min_batch_size
    max_batch_size,      \* settings.max_batch_size
    adaptive_batching,   \* settings.adaptive_batching
    current_batch_size,  \* EmbeddingModel.current_batch_size
    failAbove,           \* the primitive fails iff called with more texts than this (or Arbitrary)
    stack,               \* the active embed frames, outermost first
    outcome,             \* of the outermost embed call: idle, running, returned, raised
    result,              \* the value the outermost embed call returned
    input,               \* the texts of the outermost embed call
    startBatch,          \* current_batch_size when the outermost call began
    calls,               \* embed calls made so far
    primCalls,           \* _embed_batch calls made by the outermost call
    primFailed,          \* whether a _embed_batch call of the outermost call raised
    pressured,           \* whether the outermost call took the memory-pressure branch
    mem,                 \* the last memory check: its final reading, and whether gc.collect() ran
    lastPrim,            \* the last _embed_batch call: its size and current_batch_size
    forced               \* whether the last sub-batch was followed by the periodic gc.collect()

embedVars == <<min_batch_size, max_batch_size, adaptive_batching,
               current_batch_size, failAbove, stack, outcome, result, input,
               startBatch, calls, primCalls, primFailed, pressured, mem, lastPrim,
               forced>>

VARIABLES
    EMBEDDER_ENDPOINT_ID,      \* the endpoint id of the environment ("" when unset)
    RUNPOD_API_KEY,            \* the API key of the environment ("" when unset)
    EMBEDDING_BATCH_SIZE,      \* chunks per batch
    EMBEDDING_MAX_CONCURRENT,  \* status queries per polling iteration
    EMBEDDING_TIMEOUT,         \* the deadline, counted from the start of polling
    opc,                       \* where embed_chunks_serverless stands
    chunks,                    \* its input list
    batches,                   \* the partition of chunks
    jobs,                      \* List[EmbeddingJob], in submission order
    pending_jobs,              \* indices into jobs of the pending jobs
    check_jobs,                \* the slice polled in the current iteration
    cursor,                    \* position in check_jobs of the next status query
    elapsed,                   \* time.time() - start_time
    remote,                    \* the endpoint's state of each submitted job
    submitLog,                 \* the batch index of every submit_job call, in order
    iterQueries,               \* the jobs queried so far in the current iteration
    cancelLog,                 \* the job_id of every cancel_job call, in order
    cancelFailed,              \* whether the request of a cancel_job call failed
    firstRun,                  \* an earlier run on the same input: what it returned
    failed_count,              \* the failed count computed at aggregation
    all_vectors                \* the list embed_chunks_serverless returns

orchVars == <<EMBEDDER_ENDPOINT_ID, RUNPOD_API_KEY, EMBEDDING_BATCH_SIZE,
              EMBEDDING_MAX_CONCURRENT, EMBEDDING_TIMEOUT,
              opc, chunks, batches, jobs, pending_jobs, check_jobs, cursor,
              elapsed, remote, submitLog, iterQueries, cancelLog, cancelFailed,
              firstRun, failed_count, all_vectors>>

VARIABLES
    max_concurrent,        \* DocumentationGenerator.max_concurrent
    max_retries,           \* OpenAIClient.max_retries
    semaphore,             \* the value of DocumentationGenerator.semaphore
    gpc,                   \* where generate_batch stands: idle, running, done
    contexts,              \* its input list, as symbol ids
    tasks,                 \* the generate_single coroutine of each context
    completions,           \* the finished coroutines as_completed has yet to yield, in order
    documented_symbols,    \* the list generate_batch builds
    total_input_tokens,    \* its input token total
    total_output_tokens,   \* its output token total
    warnings               \* its warnings

genVars == <<max_concurrent, max_retries, semaphore, gpc, contexts, tasks,
             completions, documented_symbols, total_input_tokens,
             total_output_tokens, warnings>>

VARIABLES
    server_ready,          \* the global server_ready of the ingest handler
    hpc,                   \* where handler stands: idle, or joining its start-up thread
    threads,               \* every run_rust_server thread started, with its server process
    invocations            \* handler invocations so far

ingestVars == <<server_ready, hpc, threads, invocations>>

\* The generation worker and the ingest handler together.
otherVars == <<genVars, ingestVars>>

vars == <<embedVars, orchVars, otherVars>>

\* ----------------------------------------------------------------- helpers
Min(a, b) == IF a < b THEN a ELSE b
Max(a, b) == IF a > b THEN a ELSE b

\* Python's s[a:b] for 0 <= a <= b (0-based, end exclusive, clipped).
Slice(s, a, b) == SubSeq(s, a + 1, Min(b, Len(s)))

\* The list [1, ..., n]: n distinct texts.
Texts(n) == [j \in 1..n |-> j]

\* The vector the inference engine computes for text t.
Vec(t) == [of |-> t]

\* _embed_batch on success: one row per text, in order.
EmbedBatch(texts) == [j \in 1..Len(texts) |-> Vec(texts[j])]

\* np.vstack: the rows of every array of the list, in list order.
RECURSIVE Vstack(_)
Vstack(arrays) ==
    IF arrays = <<>> THEN <<>>
    ELSE Head(arrays) \o Vstack(Tail(arrays))

\* The outcomes the primitive can have on n texts: TRUE is success.
PrimOutcomes(n) ==
    IF failAbove = Arbitrary THEN BOOLEAN ELSE {n <= failAbove}

\* _adjust_batch_size with the grow step left unclamped.
AdjustBatchSizeUnclamped(cur, success) ==
    IF ~adaptive_batching THEN cur
    ELSE IF success /\ cur < max_batch_size
         THEN cur + GrowStep
    ELSE IF ~success /\ cur > min_batch_size
         THEN Max(cur \div ShrinkDiv, min_batch_size)
    ELSE cur

\* _adjust_batch_size growing by doubling instead of by the additive step.
AdjustBatchSizeDoubling(cur, success) ==
    IF ~adaptive_batching THEN cur
    ELSE IF success /\ cur < max_batch_size
         THEN Min(cur * 2, max_batch_size)
    ELSE IF ~success /\ cur > min_batch_size
         THEN Max(cur \div ShrinkDiv, min_batch_size)
    ELSE cur

\* _adjust_batch_size shrinking by one instead of halving.
AdjustBatchSizeDecrement(cur, success) ==
    IF ~adaptive_batching THEN cur
    ELSE IF success /\ cur < max_batch_size
         THEN Min(cur + GrowStep, max_batch_size)
    ELSE IF ~success /\ cur > min_batch_size
         THEN Max(cur - 1, min_batch_size)
    ELSE cur

\* _adjust_batch_size with a shrink step that leaves the batch size as it is.
AdjustBatchSizeNoShrink(cur, success) ==
    IF ~adaptive_batching THEN cur
    ELSE IF success /\ cur < max_batch_size
         THEN Min(cur + GrowStep, max_batch_size)
    ELSE cur

\* _adjust_batch_size: the new current_batch_size.
AdjustBatchSize(cur, success) ==
    IF ~adaptive_batching THEN cur
    ELSE IF success /\ cur < max_batch_size
         THEN Min(cur + GrowStep, max_batch_size)
    ELSE IF ~success /\ cur > min_batch_size
         THEN Max(cur \div ShrinkDiv, min_batch_size)
    ELSE cur

\* A fresh frame of embed(texts).
Frame(texts) == [texts |-> texts, pc |-> "start", i |-> 0, step |-> 0, all |-> <<>>]

Top == stack[Len(stack)]
Below == SubSeq(stack, 1, Len(stack) - 1)
ReplaceTop(f) == Below \o <<f>>

\* A frame ends with ret (a value or a raise); stk are the frames above which
\* it ran. The caller resumes: "return self.embed(texts)" passes ret on; the
\* sub-batch loop appends a value and continues, and its except clause shrinks
\* and raises again.
RECURSIVE Deliver(_, _, _)
Deliver(stk, cur, ret) ==
    IF stk = <<>> THEN [stack |-> stk, cur |-> cur, ret |-> ret]
    ELSE LET caller == stk[Len(stk)]
             rest == SubSeq(stk, 1, Len(stk) - 1)
         IN IF caller.pc = "retry_wait" THEN Deliver(rest, cur, ret)
            ELSE IF ret.kind = "value"
                 THEN [stack |-> rest \o <<[caller EXCEPT
                                              !.all = Append(@, ret.val),
                                              !.i = @ + caller.step,
                                              !.pc = "loop"]>>,
                       cur |-> cur,
                       ret |-> [kind |-> "none", val |-> <<>>]]
                 ELSE Deliver(rest, AdjustBatchSize(cur, FALSE), ret)

\* The effect of a frame ending on the model's state.
Finish(stk, cur, ret) ==
    LET d == Deliver(stk, cur, ret)
    IN /\ stack' = d.stack
       /\ current_batch_size' = d.cur
       /\ outcome' = IF d.ret.kind = "value" THEN "returned"
                     ELSE IF d.ret.kind = "raise" THEN "raised"
                     ELSE outcome
       /\ result' = IF d.ret.kind = "value" THEN d.ret.val ELSE result

Settings == <<min_batch_size, max_batch_size, adaptive_batching, failAbove>>

\* ------------------------------------------------------------------- Init
\* EmbeddingModel.__init__: current_batch_size starts at min_batch_size.
InitEmbed ==
    /\ min_batch_size \in DefaultMinBatch..MaxMinBatch
    /\ max_batch_size \in min_batch_size..MaxMaxBatch
    /\ adaptive_batching \in BOOLEAN
    /\ current_batch_size = min_batch_size
    /\ failAbove \in {Arbitrary} \cup (0..MaxTexts)
    /\ stack = <<>>
    /\ outcome = "idle"
    /\ result = <<>>
    /\ input = <<>>
    /\ startBatch = min_batch_size
    /\ calls = 0
    /\ primCalls = 0
    /\ primFailed = FALSE
    /\ pressured = FALSE
    /\ mem = [safe |-> TRUE, gc |-> FALSE]
    /\ lastPrim = [size |-> 0, cur |-> 0, ok |-> TRUE]
    /\ forced = FALSE
    \* the generation worker and the ingest handler, idle
    /\ max_concurrent = 1
    /\ max_retries = DefaultMaxRetries
    /\ semaphore = 1
    /\ gpc = "idle"
    /\ contexts = <<>>
    /\ tasks = <<>>
    /\ completions = <<>>
    /\ documented_symbols = <<>>
    /\ total_input_tokens = 0
    /\ total_output_tokens = 0
    /\ warnings = <<>>
    /\ server_ready = FALSE
    /\ hpc = "idle"
    /\ threads = <<>>
    /\ invocations = 0
    \* the orchestrator, idle as configured
    /\ EMBEDDER_ENDPOINT_ID = "endpoint"
    /\ RUNPOD_API_KEY = "key"
    /\ EMBEDDING_BATCH_SIZE = MaxBatchSize
    /\ EMBEDDING_MAX_CONCURRENT = MaxConcurrent
    /\ EMBEDDING_TIMEOUT = MaxTimeout
    /\ opc = "idle"
    /\ chunks = <<>>
    /\ batches = <<>>
    /\ jobs = <<>>
    /\ pending_jobs = <<>>
    /\ check_jobs = <<>>
    /\ cursor = 1
    /\ elapsed = 0
    /\ remote = <<>>
    /\ submitLog = <<>>
    /\ iterQueries = <<>>
    /\ cancelLog = <<>>
    /\ cancelFailed = FALSE
    /\ firstRun = [done |-> FALSE, completed |-> FALSE, vectors |-> <<>>]
    /\ failed_count = 0
    /\ all_vectors = <<>>

\* The worker as shipped (min_batch_size 1, max_batch_size 8, adaptive), with
\* a primitive that never fails.
InitEmbedLong ==
    /\ min_batch_size = DefaultMinBatch
    /\ max_batch_size = DefaultMaxBatch
    /\ adaptive_batching = TRUE
    /\ current_batch_size = DefaultMinBatch
    /\ failAbove = LongTexts
    /\ stack = <<>>
    /\ outcome = "idle"
    /\ result = <<>>
    /\ input = <<>>
    /\ startBatch = DefaultMinBatch
    /\ calls = 0
    /\ primCalls = 0
    /\ primFailed = FALSE
    /\ pressured = FALSE
    /\ mem = [safe |-> TRUE, gc |-> FALSE]
    /\ lastPrim = [size |-> 0, cur |-> 0, ok |-> TRUE]
    /\ forced = FALSE
    \* the generation worker and the ingest handler, idle
    /\ max_concurrent = 1
    /\ max_retries = DefaultMaxRetries
    /\ semaphore = 1
    /\ gpc = "idle"
    /\ contexts = <<>>
    /\ tasks = <<>>
    /\ completions = <<>>
    /\ documented_symbols = <<>>
    /\ total_input_tokens = 0
    /\ total_output_tokens = 0
    /\ warnings = <<>>
    /\ server_ready = FALSE
    /\ hpc = "idle"
    /\ threads = <<>>
    /\ invocations = 0
    /\ EMBEDDER_ENDPOINT_ID = "endpoint"
    /\ RUNPOD_API_KEY = "key"
    /\ EMBEDDING_BATCH_SIZE = MaxBatchSize
    /\ EMBEDDING_MAX_CONCURRENT = MaxConcurrent
    /\ EMBEDDING_TIMEOUT = MaxTimeout
    /\ opc = "idle"
    /\ chunks = <<>>
    /\ batches = <<>>
    /\ jobs = <<>>
    /\ pending_jobs = <<>>
    /\ check_jobs = <<>>
    /\ cursor = 1
    /\ elapsed = 0
    /\ remote = <<>>
    /\ submitLog = <<>>
    /\ iterQueries = <<>>
    /\ cancelLog = <<>>
    /\ cancelFailed = FALSE
    /\ firstRun = [done |-> FALSE, completed |-> FALSE, vectors |-> <<>>]
    /\ failed_count = 0
    /\ all_vectors = <<>>

\* The worker as shipped and just loaded (current_batch_size at
\* min_batch_size), with a primitive that never fails.
InitEmbedGc ==
    /\ min_batch_size = DefaultMinBatch
    /\ max_batch_size = DefaultMaxBatch
    /\ adaptive_batching = TRUE
    /\ current_batch_size = DefaultMinBatch
    /\ failAbove = GcTexts
    /\ stack = <<>>
    /\ outcome = "idle"
    /\ result = <<>>
    /\ input = <<>>
    /\ startBatch = DefaultMinBatch
    /\ calls = 0
    /\ primCalls = 0
    /\ primFailed = FALSE
    /\ pressured = FALSE
    /\ mem = [safe |-> TRUE, gc |-> FALSE]
    /\ lastPrim = [size |-> 0, cur |-> 0, ok |-> TRUE]
    /\ forced = FALSE
    \* the generation worker and the ingest handler, idle
    /\ max_concurrent = 1
    /\ max_retries = DefaultMaxRetries
    /\ semaphore = 1
    /\ gpc = "idle"
    /\ contexts = <<>>
    /\ tasks = <<>>
    /\ completions = <<>>
    /\ documented_symbols = <<>>
    /\ total_input_tokens = 0
    /\ total_output_tokens = 0
    /\ warnings = <<>>
    /\ server_ready = FALSE
    /\ hpc = "idle"
    /\ threads = <<>>
    /\ invocations = 0
    /\ EMBEDDER_ENDPOINT_ID = "endpoint"
    /\ RUNPOD_API_KEY = "key"
    /\ EMBEDDING_BATCH_SIZE = MaxBatchSize
    /\ EMBEDDING_MAX_CONCURRENT = MaxConcurrent
    /\ EMBEDDING_TIMEOUT = MaxTimeout
    /\ opc = "idle"
    /\ chunks = <<>>
    /\ batches = <<>>
    /\ jobs = <<>>
    /\ pending_jobs = <<>>
    /\ check_jobs = <<>>
    /\ cursor = 1
    /\ elapsed = 0
    /\ remote = <<>>
    /\ submitLog = <<>>
    /\ iterQueries = <<>>
    /\ cancelLog = <<>>
    /\ cancelFailed = FALSE
    /\ firstRun = [done |-> FALSE, completed |-> FALSE, vectors |-> <<>>]
    /\ failed_count = 0
    /\ all_vectors = <<>>

\* ---------------------------------------------------------------- actions
\* A caller invokes embed(texts) on the idle model.
EmbedCall(n) ==
    /\ stack = <<>>
    /\ calls < MaxCalls
    /\ stack' = <<Frame(Texts(n))>>
    /\ outcome' = "running"
    /\ result' = <<>>
    /\ input' = Texts(n)
    /\ startBatch' = current_batch_size
    /\ calls' = calls + 1
    /\ primCalls' = 0
    /\ primFailed' = FALSE
    /\ pressured' = FALSE
    /\ UNCHANGED <<otherVars, orchVars, forced, Settings, current_batch_size, mem, lastPrim>>

\* A caller invokes embed on a long input, after the earlier calls have
\* brought the batch size to max_batch_size.
EmbedLongCall ==
    /\ stack = <<>>
    /\ calls = MaxCalls
    /\ current_batch_size = max_batch_size
    /\ stack' = <<Frame(Texts(LongTexts))>>
    /\ outcome' = "running"
    /\ result' = <<>>
    /\ input' = Texts(LongTexts)
    /\ startBatch' = current_batch_size
    /\ calls' = calls + 1
    /\ primCalls' = 0
    /\ primFailed' = FALSE
    /\ pressured' = FALSE
    /\ UNCHANGED <<otherVars, orchVars, forced, Settings, current_batch_size, mem, lastPrim>>

\* A caller invokes embed on GcTexts texts.
EmbedGcCall ==
    /\ stack = <<>>
    /\ calls < MaxCalls
    /\ stack' = <<Frame(Texts(GcTexts))>>
    /\ outcome' = "running"
    /\ result' = <<>>
    /\ input' = Texts(GcTexts)
    /\ startBatch' = current_batch_size
    /\ calls' = calls + 1
    /\ primCalls' = 0
    /\ primFailed' = FALSE
    /\ pressured' = FALSE
    /\ UNCHANGED <<otherVars, orchVars, forced, Settings, current_batch_size, mem, lastPrim>>

\* The direct path with the memory check as a hard gate: no call when unsafe.
DirectProceedsIfSafe(safe) == safe

\* Whether the direct path goes on to _embed_batch after its memory check:
\* it does whatever the reading was ("if not is_safe" only logs and collects).
DirectProceeds(safe) == TRUE

\* get_model(): warmup() runs _embed_batch on one dummy text, outside embed
\* and without _adjust_batch_size.
Warmup ==
    /\ stack = <<>>
    /\ outcome = "idle"
    /\ calls = 0
    /\ outcome' = "warm"
    /\ UNCHANGED <<otherVars, orchVars, forced, Settings, current_batch_size, stack, result, input,
                   startBatch, calls, primCalls, primFailed, pressured, mem, lastPrim>>

\* The direct path: len(texts) <= current_batch_size. One memory check
\* (advisory: an unsafe reading only logs and runs gc.collect()), one
\* _embed_batch call on the whole input; grow and return, or shrink and then
\* retry or raise.
EmbedDirect(safe, ok) ==
    /\ stack # <<>>
    /\ Top.pc = "start"
    /\ Len(Top.texts) <= current_batch_size
    /\ ok \in PrimOutcomes(Len(Top.texts))
    /\ mem' = [safe |-> safe, gc |-> ~safe]
    /\ IF ~DirectProceeds(safe)
       THEN /\ Finish(Below, current_batch_size, [kind |-> "raise", val |-> <<>>])
            /\ UNCHANGED <<primCalls, primFailed, lastPrim>>
       ELSE /\ primCalls' = primCalls + 1
            /\ primFailed' = (primFailed \/ ~ok)
            /\ lastPrim' = [size |-> Len(Top.texts), cur |-> current_batch_size,
                            ok |-> ok]
            /\ IF ok
               THEN Finish(Below, AdjustBatchSize(current_batch_size, TRUE),
                           [kind |-> "value", val |-> EmbedBatch(Top.texts)])
               ELSE LET cur == AdjustBatchSize(current_batch_size, FALSE)
                    IN IF cur > min_batch_size /\ Len(Top.texts) > min_batch_size
                       THEN /\ stack' = ReplaceTop([Top EXCEPT !.pc = "retry_wait"])
                                          \o <<Frame(Top.texts)>>
                            /\ current_batch_size' = cur
                            /\ UNCHANGED <<outcome, result>>
                       ELSE Finish(Below, cur, [kind |-> "raise", val |-> <<>>])
    /\ UNCHANGED <<otherVars, orchVars, forced, Settings, input, startBatch, calls, pressured>>

\* The sub-batched path begins: range(0, total, current_batch_size) is
\* evaluated once, with the batch size of this moment as its step.
EmbedChunkStart ==
    /\ stack # <<>>
    /\ Top.pc = "start"
    /\ Len(Top.texts) > current_batch_size
    /\ stack' = ReplaceTop([Top EXCEPT !.pc = "loop", !.i = 0,
                                       !.step = current_batch_size,
                                       !.all = <<>>])
    /\ UNCHANGED <<otherVars, orchVars, forced, Settings, current_batch_size, outcome, result, input,
                   startBatch, calls, primCalls, primFailed, pressured, mem, lastPrim>>

\* The sub-batch taken as all the texts from i on.
ChunkRest(f, cur) == Slice(f.texts, f.i, Len(f.texts))

\* The sub-batch of this iteration: texts[i:i + self.current_batch_size].
Chunk(f, cur) == Slice(f.texts, f.i, f.i + cur)

\* One iteration whose memory check is unsafe before and after gc.collect():
\* shrink, and embed the sub-batch recursively.
EmbedChunkPressure ==
    /\ stack # <<>>
    /\ Top.pc = "loop"
    /\ Top.i < Len(Top.texts)
    /\ LET chunk == Chunk(Top, current_batch_size)
       IN stack' = ReplaceTop([Top EXCEPT !.pc = "chunk_wait"]) \o <<Frame(chunk)>>
    /\ current_batch_size' = AdjustBatchSize(current_batch_size, FALSE)
    /\ pressured' = TRUE
    /\ mem' = [safe |-> FALSE, gc |-> TRUE]
    /\ UNCHANGED <<otherVars, orchVars, forced, Settings, outcome, result, input, startBatch, calls,
                   primCalls, primFailed, lastPrim>>

\* chunk_num = i // self.current_batch_size + 1, with the batch size of the
\* moment.
ChunkNum(i, cur) == i \div cur + 1

\* "if chunk_num % 10 == 0": the periodic gc.collect().
ForcedGc(num) == num % GcEvery = 0

\* One iteration whose memory check is safe, at once (atOnce) or after
\* gc.collect(): _embed_batch on the sub-batch; append and grow, or shrink
\* and raise.
EmbedChunkBatch(atOnce, ok) ==
    /\ stack # <<>>
    /\ Top.pc = "loop"
    /\ Top.i < Len(Top.texts)
    /\ mem' = [safe |-> TRUE, gc |-> ~atOnce]
    /\ LET chunk == Chunk(Top, current_batch_size)
       IN /\ ok \in PrimOutcomes(Len(chunk))
          /\ primCalls' = primCalls + 1
          /\ primFailed' = (primFailed \/ ~ok)
          /\ lastPrim' = [size |-> Len(chunk), cur |-> current_batch_size, ok |-> ok]
          /\ forced' = (ok /\ ForcedGc(ChunkNum(Top.i, current_batch_size)))
          /\ IF ok
             THEN /\ stack' = ReplaceTop([Top EXCEPT
                                            !.all = Append(@, EmbedBatch(chunk)),
                                            !.i = @ + Top.step])
                  /\ current_batch_size' = AdjustBatchSize(current_batch_size, TRUE)
                  /\ UNCHANGED <<outcome, result>>
             ELSE Finish(Below, AdjustBatchSize(current_batch_size, FALSE),
                         [kind |-> "raise", val |-> <<>>])
    /\ UNCHANGED <<otherVars, orchVars, Settings, input, startBatch, calls, pressured>>

\* The loop is exhausted: np.vstack(all_embeddings) is returned.
EmbedChunkDone ==
    /\ stack # <<>>
    /\ Top.pc = "loop"
    /\ Top.i >= Len(Top.texts)
    /\ Finish(Below, current_batch_size,
              [kind |-> "value", val |-> Vstack(Top.all)])
    /\ UNCHANGED <<otherVars, orchVars, forced, Settings, input, startBatch, calls, primCalls, primFailed,
                   pressured, mem, lastPrim>>

NextEmbed ==
    \/ Warmup
    \/ \E n \in 0..MaxTexts : EmbedCall(n)
    \/ \E safe \in BOOLEAN, ok \in BOOLEAN : EmbedDirect(safe, ok)
    \/ EmbedChunkStart
    \/ EmbedChunkPressure
    \/ \E atOnce \in BOOLEAN, ok \in BOOLEAN : EmbedChunkBatch(atOnce, ok)
    \/ EmbedChunkDone

\* The steps of a running embed call: embed is synchronous code, which runs
\* on until it returns or raises.
EmbedRuns ==
    \/ \E safe \in BOOLEAN, ok \in BOOLEAN : EmbedDirect(safe, ok)
    \/ EmbedChunkStart
    \/ EmbedChunkPressure
    \/ \E atOnce \in BOOLEAN, ok \in BOOLEAN : EmbedChunkBatch(atOnce, ok)
    \/ EmbedChunkDone

\* The worker with a long call after the short ones.
NextEmbedLong ==
    \/ \E n \in 0..MaxTexts : EmbedCall(n)
    \/ EmbedLongCall
    \/ \E safe \in BOOLEAN, ok \in BOOLEAN : EmbedDirect(safe, ok)
    \/ EmbedChunkStart
    \/ EmbedChunkPressure
    \/ \E atOnce \in BOOLEAN, ok \in BOOLEAN : EmbedChunkBatch(atOnce, ok)
    \/ EmbedChunkDone

\* The worker with calls of GcTexts texts.
NextEmbedGc ==
    \/ EmbedGcCall
    \/ \E safe \in BOOLEAN, ok \in BOOLEAN : EmbedDirect(safe, ok)
    \/ EmbedChunkStart
    \/ EmbedChunkPressure
    \/ \E atOnce \in BOOLEAN, ok \in BOOLEAN : EmbedChunkBatch(atOnce, ok)
    \/ EmbedChunkDone

\* ------------------------------------------- embed_chunks_serverless: data
\* The chunk at position c of the input: {"chunk_id": ..., "content": ...}.
ChunkOf(c) == [chunk_id |-> c, content |-> c]

\* The input list of n chunks.
Chunks(n) == [c \in 1..n |-> ChunkOf(c)]

\* len(range(0, n, step)).
RangeLen(n, step) == (n + step - 1) \div step

\* The partition with the last, shorter batch left out.
BatchesWithoutRemainder(cs, size) ==
    [k \in 1..(Len(cs) \div size) |->
        Slice(cs, (k - 1) * size, (k - 1) * size + size)]

\* [chunks[i:i + size] for i in range(0, len(chunks), size)].
Batches(cs, size) ==
    [k \in 1..RangeLen(Len(cs), size) |->
        Slice(cs, (k - 1) * size, (k - 1) * size + size)]

\* f"{job_prefix}_batch_{i}".
BatchId(i) == <<"job_prefix", "_batch_", i>>

\* The id the endpoint gives the job of batch i (response.json()["id"]).
JobId(i) == i + 1

\* [c["chunk_id"] for c in batch].
ChunkIds(batch) == [k \in 1..Len(batch) |-> batch[k].chunk_id]

\* EmbeddingJob.result = None, and the outputs a COMPLETED job can carry: the
\* embedder's vectors, the embedder's error dictionary, or no output ({}).
NoResult == [kind |-> "None", vectors |-> <<>>]
VectorsOutput(ids) ==
    [kind |-> "vectors",
     vectors |-> [k \in 1..Len(ids) |-> [chunk_id |-> ids[k], vector |-> Vec(ids[k])]]]
ErrorOutput == [kind |-> "error", vectors |-> <<>>]
EmptyOutput == [kind |-> "empty", vectors |-> <<>>]

\* Python's truth value of job.result.
Truthy(r) == r.kind \in {"vectors", "error"}

\* The job record a failed submit_job call leaves, with the error dropped
\* and the job left pending.
SubmittedJobStaysPending(i, batch, ok) ==
    [job_id |-> IF ok THEN JobId(i) ELSE EmptyJobId,
     batch_id |-> BatchId(i),
     chunk_ids |-> ChunkIds(batch),
     status |-> "pending",
     result |-> NoResult,
     error |-> "None"]

\* The EmbeddingJob appended for batch i: ok is whether submit_job returned.
SubmittedJob(i, batch, ok) ==
    IF ok
    THEN [job_id |-> JobId(i),
          batch_id |-> BatchId(i),
          chunk_ids |-> ChunkIds(batch),
          status |-> "pending",
          result |-> NoResult,
          error |-> "None"]
    ELSE [job_id |-> EmptyJobId,
          batch_id |-> BatchId(i),
          chunk_ids |-> ChunkIds(batch),
          status |-> "failed",
          result |-> NoResult,
          error |-> "SubmitError"]

\* The pending list taken as every job that is not completed.
PendingOfNotCompleted(js) ==
    LET S == {j \in 1..Len(js) : js[j].status # "completed"}
    IN CHOOSE s \in [1..Cardinality(S) -> S] :
          \A a, b \in 1..Cardinality(S) : a < b => s[a] < s[b]

\* [j for j in jobs if j.status == "pending"], as indices into jobs.
RECURSIVE PendingFrom(_, _)
PendingFrom(js, k) ==
    IF k > Len(js) THEN <<>>
    ELSE (IF js[k].status = "pending" THEN <<k>> ELSE <<>>) \o PendingFrom(js, k + 1)
PendingOf(js) == PendingFrom(js, 1)

\* The polled slice without the concurrency limit.
CheckJobsUnlimited(pending) == pending

\* The polled slice taken from the end: pending_jobs[-EMBEDDING_MAX_CONCURRENT:].
CheckJobsLast(pending) ==
    SubSeq(pending, Max(1, Len(pending) - EMBEDDING_MAX_CONCURRENT + 1), Len(pending))

\* pending_jobs[:EMBEDDING_MAX_CONCURRENT].
CheckJobs(pending) == Slice(pending, 0, EMBEDDING_MAX_CONCURRENT)

\* What a status query can answer for a job in remote state r; "RAISE" is a
\* query that raises (network error, HTTP error). The endpoint's state of a
\* job is RUNNING, COMPLETED or FAILED, where FAILED stands for its three
\* unsuccessful ends: which of them, and which output a COMPLETED job carries,
\* shows when the status is read.
StatusResponses(r) ==
    (IF r = "RUNNING" THEN {"IN_QUEUE", "IN_PROGRESS", "UNKNOWN"}
     ELSE IF r = "COMPLETED" THEN {"COMPLETED"}
     ELSE {"FAILED", "CANCELLED", "TIMED_OUT"}) \cup {"RAISE"}

\* The outputs a COMPLETED status can carry for a job.
Outputs(job) == {VectorsOutput(job.chunk_ids), ErrorOutput, EmptyOutput}

\* The status mapping with CANCELLED and TIMED_OUT taken for "still running".
MapStatusOnlyFailedFails(job, status, output) ==
    IF status = "COMPLETED"
    THEN [job EXCEPT !.status = "completed", !.result = output]
    ELSE IF status = "FAILED"
    THEN [job EXCEPT !.status = "failed", !.error = "RemoteError"]
    ELSE job

\* The status mapping with the failed states recorded without their error.
MapStatusFailedWithoutError(job, status, output) ==
    IF status = "COMPLETED"
    THEN [job EXCEPT !.status = "completed", !.result = output]
    ELSE IF status \in {"FAILED", "CANCELLED", "TIMED_OUT"}
    THEN [job EXCEPT !.status = "failed"]
    ELSE job

\* The job after one status query answered status (lines 164-181).
MapStatus(job, status, output) ==
    IF status = "COMPLETED"
    THEN [job EXCEPT !.status = "completed", !.result = output]
    ELSE IF status = "FAILED"
    THEN [job EXCEPT !.status = "failed", !.error = "RemoteError"]
    ELSE IF status \in {"CANCELLED", "TIMED_OUT"}
    THEN [job EXCEPT !.status = "failed",
                     !.error = IF status = "CANCELLED" THEN "Job CANCELLED"
                               ELSE "Job TIMED_OUT"]
    ELSE job

\* A job still pending when the loop ends, left pending.
TimedOutStaysPending(job) == job

\* A job still pending when the loop ends (lines 191-192).
TimedOut(job) == [job EXCEPT !.status = "failed", !.error = "Timeout"]

\* cancel_job without its try/except: a failed request propagates.
CancelJobPropagates(ok) == IF ok THEN "sent" ELSE "raise"

\* cancel_job: ok is whether requests.post went through; a failure is logged
\* and swallowed.
CancelJob(ok) == IF ok THEN "sent" ELSE "logged"

\* The cancel_job calls of the timeout handling, none issued.
CancelRequestsNone(js, pending) == <<>>

\* The cancel_job calls of the timeout handling, made for every job.
CancelRequestsAllJobs(js, pending) == [k \in 1..Len(js) |-> js[k].job_id]

\* The job_id of every cancel_job call of the timeout handling, in order.
CancelRequests(js, pending) == [k \in 1..Len(pending) |-> js[pending[k]].job_id]

\* Whether aggregation takes a job's vectors.
Collected(job) == job.status = "completed" /\ Truthy(job.result)

\* all_vectors after the aggregation loop.
RECURSIVE CollectVectors(_)
CollectVectors(js) ==
    IF js = <<>> THEN <<>>
    ELSE (IF Collected(Head(js)) THEN Head(js).result.vectors ELSE <<>>)
         \o CollectVectors(Tail(js))

\* failed_count after the aggregation loop.
RECURSIVE CollectFailed(_)
CollectFailed(js) ==
    IF js = <<>> THEN 0
    ELSE (IF Collected(Head(js)) THEN 0 ELSE 1) + CollectFailed(Tail(js))

\* The value embed_chunks_serverless returns, as the fields it carries: the
\* list of vectors and nothing else ("return all_vectors").
ReturnValue == [vectors |-> all_vectors]

OrchConfig == <<EMBEDDER_ENDPOINT_ID, RUNPOD_API_KEY, EMBEDDING_BATCH_SIZE,
                EMBEDDING_MAX_CONCURRENT, EMBEDDING_TIMEOUT>>

\* "if EMBEDDER_ENDPOINT_ID and RUNPOD_API_KEY": both are non-empty strings.
Configured == EMBEDDER_ENDPOINT_ID # "" /\ RUNPOD_API_KEY # ""


\* ----------------------------------------- embed_chunks_serverless: steps
InitOrch ==
    /\ EMBEDDER_ENDPOINT_ID \in {"", "endpoint"}
    /\ RUNPOD_API_KEY \in {"", "key"}
    /\ EMBEDDING_BATCH_SIZE \in {1, MaxBatchSize}
    /\ EMBEDDING_MAX_CONCURRENT \in {1, MaxConcurrent}
    /\ EMBEDDING_TIMEOUT \in {0, MaxTimeout}
    /\ opc = "idle"
    /\ chunks = <<>>
    /\ batches = <<>>
    /\ jobs = <<>>
    /\ pending_jobs = <<>>
    /\ check_jobs = <<>>
    /\ cursor = 1
    /\ elapsed = 0
    /\ remote = <<>>
    /\ submitLog = <<>>
    /\ iterQueries = <<>>
    /\ cancelLog = <<>>
    /\ cancelFailed = FALSE
    /\ firstRun = [done |-> FALSE, completed |-> FALSE, vectors |-> <<>>]
    /\ failed_count = 0
    /\ all_vectors = <<>>
    \* the embedding worker, idle as shipped
    /\ min_batch_size = DefaultMinBatch
    /\ max_batch_size = MaxMaxBatch
    /\ adaptive_batching = TRUE
    /\ current_batch_size = DefaultMinBatch
    /\ failAbove = Arbitrary
    /\ stack = <<>>
    /\ outcome = "idle"
    /\ result = <<>>
    /\ input = <<>>
    /\ startBatch = DefaultMinBatch
    /\ calls = 0
    /\ primCalls = 0
    /\ primFailed = FALSE
    /\ pressured = FALSE
    /\ mem = [safe |-> TRUE, gc |-> FALSE]
    /\ lastPrim = [size |-> 0, cur |-> 0, ok |-> TRUE]
    /\ forced = FALSE
    \* the generation worker and the ingest handler, idle
    /\ max_concurrent = 1
    /\ max_retries = DefaultMaxRetries
    /\ semaphore = 1
    /\ gpc = "idle"
    /\ contexts = <<>>
    /\ tasks = <<>>
    /\ completions = <<>>
    /\ documented_symbols = <<>>
    /\ total_input_tokens = 0
    /\ total_output_tokens = 0
    /\ warnings = <<>>
    /\ server_ready = FALSE
    /\ hpc = "idle"
    /\ threads = <<>>
    /\ invocations = 0

\* The handler's embedding step without an endpoint id or an API key: a
\* warning is logged, the step is skipped and the chunks go on unembedded.
HandlerSkipEmbedding(n) ==
    /\ opc = "idle"
    /\ ~Configured
    /\ chunks' = Chunks(n)
    /\ opc' = "skipped"
    /\ UNCHANGED <<otherVars, embedVars, OrchConfig, firstRun, batches, jobs, pending_jobs,
                   check_jobs, cursor, elapsed, remote, submitLog, iterQueries,
                   cancelLog, cancelFailed, failed_count, all_vectors>>

\* The call, made by the handler when the endpoint is configured: an empty
\* input returns [] at once; otherwise the input is split.
OrchCall(n) ==
    /\ opc = "idle"
    /\ Configured
    /\ RangeLen(n, EMBEDDING_BATCH_SIZE) <= MaxJobs
    /\ chunks' = Chunks(n)
    /\ IF n = 0
       THEN /\ opc' = "done"
            /\ batches' = <<>>
       ELSE /\ opc' = "submit"
            /\ batches' = Batches(Chunks(n), EMBEDDING_BATCH_SIZE)
    /\ UNCHANGED <<otherVars, embedVars, OrchConfig, firstRun, jobs, pending_jobs, check_jobs,
                   cursor, elapsed, remote, submitLog, iterQueries, cancelLog, cancelFailed,
                   failed_count,
                   all_vectors>>

\* The submit loop left after its first pass.
SubmitLoopDoneAfterFirst(js, bs) == Len(js) >= 1

\* "for i, batch in enumerate(batches)" is exhausted: every batch has its job.
SubmitLoopDone(js, bs) == Len(js) = Len(bs)

\* The sleep taken after every iteration.
SleepAlways(pending) == TRUE

\* "if pending_jobs: await asyncio.sleep(EMBEDDING_POLL_INTERVAL)".
SleepAfter(pending) == pending # <<>>

\* One pass of the submit loop: submit_job for the next batch; after the last
\* one the pending list is built and the clock of the deadline starts.
Submit(ok) ==
    /\ opc = "submit"
    /\ LET i == Len(jobs)
           js == Append(jobs, SubmittedJob(i, batches[i + 1], ok))
       IN /\ jobs' = js
          /\ submitLog' = Append(submitLog, i)
          /\ remote' = Append(remote, IF ok THEN "RUNNING" ELSE "NONE")
          /\ IF SubmitLoopDone(js, batches)
             THEN /\ pending_jobs' = PendingOf(js)
                  /\ opc' = "poll"
             ELSE UNCHANGED <<pending_jobs, opc>>
    /\ UNCHANGED <<otherVars, embedVars, OrchConfig, firstRun, chunks, batches, check_jobs, cursor,
                   elapsed, iterQueries, cancelLog, cancelFailed, failed_count, all_vectors>>

\* The endpoint finishes job j, before the deadline: what it does later no
\* status query of a job it has already answered for can see.
RemoteAdvance(j, status) ==
    /\ opc \in {"submit", "poll", "query"}
    /\ opc = "submit" \/ elapsed < EMBEDDING_TIMEOUT
    /\ j \in 1..Len(remote)
    /\ remote[j] = "RUNNING"
    /\ remote' = [remote EXCEPT ![j] = status]
    /\ UNCHANGED <<otherVars, embedVars, OrchConfig, firstRun, opc, chunks, batches, jobs,
                   pending_jobs, check_jobs, cursor, elapsed, submitLog,
                   iterQueries, cancelLog, cancelFailed, failed_count, all_vectors>>

\* The loop condition holds: an iteration begins with its slice.
PollBegin ==
    /\ opc = "poll"
    /\ pending_jobs # <<>>
    /\ elapsed < EMBEDDING_TIMEOUT
    /\ check_jobs' = CheckJobs(pending_jobs)
    /\ cursor' = 1
    /\ iterQueries' = <<>>
    /\ opc' = "query"
    /\ UNCHANGED <<otherVars, embedVars, OrchConfig, firstRun, chunks, batches, jobs, pending_jobs,
                   elapsed, remote, submitLog, cancelLog, cancelFailed, failed_count, all_vectors>>

\* One get_status call of the iteration, taking d units of time: none, or as
\* long as one poll interval.
PollQuery(response, d) ==
    /\ opc = "query"
    /\ cursor <= Len(check_jobs)
    /\ LET j == check_jobs[cursor]
       IN /\ response \in StatusResponses(remote[j])
          /\ \E output \in Outputs(jobs[j]) :
                jobs' = [jobs EXCEPT ![j] = MapStatus(@, response, output)]
          /\ iterQueries' = Append(iterQueries, j)
    /\ cursor' = cursor + 1
    /\ elapsed' = elapsed + d
    /\ UNCHANGED <<otherVars, embedVars, OrchConfig, firstRun, opc, chunks, batches, pending_jobs,
                   check_jobs, remote, submitLog, cancelLog, cancelFailed, failed_count, all_vectors>>

\* The slice is done: the pending list is recomputed and, if it is not
\* empty, the coroutine sleeps for one poll interval.
PollEnd ==
    /\ opc = "query"
    /\ cursor > Len(check_jobs)
    /\ pending_jobs' = PendingOf(jobs)
    /\ elapsed' = IF SleepAfter(PendingOf(jobs)) THEN elapsed + PollInterval ELSE elapsed
    /\ opc' = "poll"
    /\ UNCHANGED <<otherVars, embedVars, OrchConfig, firstRun, chunks, batches, jobs, check_jobs,
                   cursor, remote, submitLog, iterQueries, cancelLog, cancelFailed,
                   failed_count,
                   all_vectors>>

\* The loop ends; every job still pending is failed with "Timeout" and a
\* cancel request is sent for it; ok is whether those requests go through.
\* An exception leaving cancel_job would end the loop at the first job.
HandleTimeouts(ok) ==
    /\ opc = "poll"
    /\ ~(pending_jobs # <<>> /\ elapsed < EMBEDDING_TIMEOUT)
    /\ LET raises == pending_jobs # <<>> /\ CancelJob(ok) = "raise"
           handled == IF raises THEN SubSeq(pending_jobs, 1, 1) ELSE pending_jobs
       IN /\ jobs' = [k \in 1..Len(jobs) |->
                        IF \E p \in 1..Len(handled) : handled[p] = k
                        THEN TimedOut(jobs[k]) ELSE jobs[k]]
          /\ cancelLog' = cancelLog \o CancelRequests(jobs, handled)
          /\ opc' = IF raises THEN "raised" ELSE "collect"
    /\ cancelFailed' = (pending_jobs # <<>> /\ ~ok)
    /\ UNCHANGED <<otherVars, embedVars, OrchConfig, firstRun, chunks, batches, pending_jobs,
                   check_jobs, cursor, elapsed, remote, submitLog, iterQueries,
                   failed_count,
                   all_vectors>>

\* Aggregation, and the return of all_vectors.
Collect ==
    /\ opc = "collect"
    /\ all_vectors' = CollectVectors(jobs)
    /\ failed_count' = CollectFailed(jobs)
    /\ opc' = "done"
    /\ UNCHANGED <<otherVars, embedVars, OrchConfig, firstRun, chunks, batches, jobs, pending_jobs,
                   check_jobs, cursor, elapsed, remote, submitLog, iterQueries,
                   cancelLog, cancelFailed>>

NextOrch ==
    \/ \E n \in 1..MaxChunks : HandlerSkipEmbedding(n)
    \/ \E n \in 0..MaxChunks : OrchCall(n)
    \/ \E ok \in BOOLEAN : Submit(ok)
    \/ \E j \in 1..MaxJobs, status \in {"COMPLETED", "FAILED"} :
          RemoteAdvance(j, status)
    \/ PollBegin
    \/ \E response \in {"IN_QUEUE", "IN_PROGRESS", "UNKNOWN", "COMPLETED",
                        "FAILED", "CANCELLED", "TIMED_OUT", "RAISE"},
          d \in {0, PollInterval} : PollQuery(response, d)
    \/ PollEnd
    \/ \E ok \in BOOLEAN : HandleTimeouts(ok)
    \/ Collect

\* The endpoint finishes job j before the first polling iteration begins.
RemoteSettle(j, status) ==
    /\ check_jobs = <<>>
    /\ RemoteAdvance(j, status)

\* A get_status call that returns the endpoint's answer, without raising.
PollQueryAnswered(response, d) ==
    /\ response # "RAISE"
    /\ PollQuery(response, d)

\* The orchestrator against a prompt endpoint: every job it finishes is
\* finished before polling begins, and every status query is answered.
NextOrchPrompt ==
    \/ \E n \in 0..MaxChunks : OrchCall(n)
    \/ \E ok \in BOOLEAN : Submit(ok)
    \/ \E j \in 1..MaxJobs, status \in {"COMPLETED", "FAILED"} :
          RemoteSettle(j, status)
    \/ PollBegin
    \/ \E response \in {"IN_QUEUE", "IN_PROGRESS", "UNKNOWN", "COMPLETED",
                        "FAILED", "CANCELLED", "TIMED_OUT"},
          d \in {0, PollInterval} : PollQueryAnswered(response, d)
    \/ PollEnd
    \/ \E ok \in BOOLEAN : HandleTimeouts(ok)
    \/ Collect

\* The caller runs embed_chunks_serverless once more on the same chunks; the
\* vectors of the first run are kept for comparison, with whether the endpoint
\* had completed every job of that run.
Rerun ==
    /\ opc = "done"
    /\ ~firstRun.done
    /\ chunks # <<>>
    /\ firstRun' = [done |-> TRUE,
                    completed |-> \A j \in 1..Len(remote) : remote[j] = "COMPLETED",
                    vectors |-> all_vectors]
    /\ opc' = "submit"
    /\ batches' = Batches(chunks, EMBEDDING_BATCH_SIZE)
    /\ jobs' = <<>>
    /\ pending_jobs' = <<>>
    /\ check_jobs' = <<>>
    /\ cursor' = 1
    /\ elapsed' = 0
    /\ remote' = <<>>
    /\ submitLog' = <<>>
    /\ iterQueries' = <<>>
    /\ cancelLog' = <<>>
    /\ cancelFailed' = FALSE
    /\ failed_count' = 0
    /\ all_vectors' = <<>>
    /\ UNCHANGED <<otherVars, embedVars, OrchConfig, chunks>>

\* A submit_job call the endpoint accepts.
SubmitAccepted == Submit(TRUE)

\* The endpoint completes job j before polling begins.
RemoteCompletes(j) == RemoteSettle(j, "COMPLETED")

\* A get_status call answered COMPLETED with the embedder's vectors.
PollQueryVectors(d) ==
    /\ PollQuery("COMPLETED", d)
    /\ jobs'[check_jobs[cursor]].result
          = VectorsOutput(jobs[check_jobs[cursor]].chunk_ids)

\* Two runs on the same input against an endpoint that accepts every submit
\* and, whenever asked, reports the job completed with the same payload; how
\* long a status query takes is the only thing left open.
NextOrchTwice ==
    \/ \E n \in 0..MaxChunks : OrchCall(n)
    \/ SubmitAccepted
    \/ \E j \in 1..MaxJobs : RemoteCompletes(j)
    \/ PollBegin
    \/ \E d \in {0, PollInterval} : PollQueryVectors(d)
    \/ PollEnd
    \/ \E ok \in BOOLEAN : HandleTimeouts(ok)
    \/ Collect
    \/ Rerun

\* ------------------------------------------- DocumentationGenerator: data
\* usage.prompt_tokens and usage.completion_tokens of the response for
\* symbol c.
InputTokens(c) == c
OutputTokens(c) == c + 1

\* What generate_single returns when generate_documentation returned.
SuccessResult(c) ==
    [documented |-> [symbol_id |-> c, summary |-> "generated",
                     tokens_used |-> InputTokens(c) + OutputTokens(c)],
     input_tokens |-> InputTokens(c),
     output_tokens |-> OutputTokens(c)]

\* The failure placeholder carrying the estimate of the tokens sent.
FailureResultWithTokens(c) ==
    [documented |-> [symbol_id |-> c,
                     summary |-> "[Documentation generation failed",
                     tokens_used |-> 0],
     input_tokens |-> InputTokens(c),
     output_tokens |-> 0]

\* What generate_single returns when generate_documentation raised: the
\* placeholder, with no tokens.
FailureResult(c) ==
    [documented |-> [symbol_id |-> c,
                     summary |-> "[Documentation generation failed",
                     tokens_used |-> 0],
     input_tokens |-> 0,
     output_tokens |-> 0]

\* The return value of the finished coroutine of context c.
TaskResult(c) == IF tasks[c].ok THEN SuccessResult(contexts[c])
                 ELSE FailureResult(contexts[c])

\* A semaphore that lets every coroutine in.
SemaphoreFreeAlways(value) == TRUE

\* asyncio.Semaphore: acquire goes through while the value is positive.
SemaphoreFree(value) == value > 0

\* stop_after_attempt(3): no further attempt after the third.
StopRetrying(attempt) == attempt >= StopAfterAttempt

\* ------------------------------------------ DocumentationGenerator: steps
\* The worker is constructed (lifespan) and generate_batch is called with n
\* contexts: one generate_single coroutine per context.
GenBatchCall(n, mc, r) ==
    /\ gpc = "idle"
    /\ max_concurrent' = mc
    /\ max_retries' = r
    /\ semaphore' = mc
    /\ contexts' = [c \in 1..n |-> c]
    /\ tasks' = [c \in 1..n |-> [st |-> "waiting", attempts |-> 0, ok |-> FALSE]]
    /\ gpc' = "running"
    /\ UNCHANGED <<embedVars, orchVars, ingestVars, completions, documented_symbols,
                   total_input_tokens, total_output_tokens, warnings>>

\* "async with self.semaphore": coroutine c enters and makes its call.
TaskAcquire(c) ==
    /\ gpc = "running"
    /\ c \in 1..Len(tasks)
    /\ tasks[c].st = "waiting"
    /\ SemaphoreFree(semaphore)
    /\ semaphore' = semaphore - 1
    /\ tasks' = [tasks EXCEPT ![c].st = "calling"]
    /\ UNCHANGED <<embedVars, orchVars, ingestVars, max_concurrent, max_retries, gpc,
                   contexts, completions, documented_symbols, total_input_tokens,
                   total_output_tokens, warnings>>

\* One attempt of generate_documentation for context c: it returns, or it
\* raises and the decorator retries or gives up; generate_single then
\* returns its result and leaves the semaphore.
TaskAttempt(c, ok) ==
    /\ gpc = "running"
    /\ c \in 1..Len(tasks)
    /\ tasks[c].st = "calling"
    /\ LET attempt == tasks[c].attempts + 1
       IN IF ok \/ StopRetrying(attempt)
          THEN /\ tasks' = [tasks EXCEPT ![c] = [st |-> "finished",
                                                 attempts |-> attempt,
                                                 ok |-> ok]]
               /\ semaphore' = semaphore + 1
               /\ completions' = Append(completions, c)
          ELSE /\ tasks' = [tasks EXCEPT ![c].attempts = attempt]
               /\ UNCHANGED <<semaphore, completions>>
    /\ UNCHANGED <<embedVars, orchVars, ingestVars, max_concurrent, max_retries, gpc,
                   contexts, documented_symbols, total_input_tokens,
                   total_output_tokens, warnings>>

\* One pass of "for coro in asyncio.as_completed(tasks)": the next finished
\* coroutine is awaited and its result added.
BatchConsume ==
    /\ gpc = "running"
    /\ completions # <<>>
    /\ LET c == Head(completions)
           r == TaskResult(c)
       IN /\ documented_symbols' = Append(documented_symbols, r.documented)
          /\ total_input_tokens' = total_input_tokens + r.input_tokens
          /\ total_output_tokens' = total_output_tokens + r.output_tokens
          /\ warnings' = IF r.documented.summary = "[Documentation generation failed"
                         THEN Append(warnings, r.documented.symbol_id)
                         ELSE warnings
          /\ tasks' = [tasks EXCEPT ![c].st = "consumed"]
    /\ completions' = Tail(completions)
    /\ UNCHANGED <<embedVars, orchVars, ingestVars, max_concurrent, max_retries,
                   semaphore, gpc, contexts>>

\* Every coroutine has been awaited: generate_batch returns.
BatchReturn ==
    /\ gpc = "running"
    /\ \A c \in 1..Len(tasks) : tasks[c].st = "consumed"
    /\ gpc' = "done"
    /\ UNCHANGED <<embedVars, orchVars, ingestVars, max_concurrent, max_retries,
                   semaphore, contexts, tasks, completions, documented_symbols,
                   total_input_tokens, total_output_tokens, warnings>>

\* The generation worker before its first batch; the other workers idle as
\* shipped.
InitGen ==
    /\ min_batch_size = DefaultMinBatch
    /\ max_batch_size = DefaultMaxBatch
    /\ adaptive_batching = TRUE
    /\ current_batch_size = DefaultMinBatch
    /\ failAbove = LongTexts
    /\ stack = <<>>
    /\ outcome = "idle"
    /\ result = <<>>
    /\ input = <<>>
    /\ startBatch = DefaultMinBatch
    /\ calls = 0
    /\ primCalls = 0
    /\ primFailed = FALSE
    /\ pressured = FALSE
    /\ mem = [safe |-> TRUE, gc |-> FALSE]
    /\ lastPrim = [size |-> 0, cur |-> 0, ok |-> TRUE]
    /\ forced = FALSE
    \* the generation worker and the ingest handler, idle
    /\ max_concurrent = 1
    /\ max_retries = DefaultMaxRetries
    /\ semaphore = 1
    /\ gpc = "idle"
    /\ contexts = <<>>
    /\ tasks = <<>>
    /\ completions = <<>>
    /\ documented_symbols = <<>>
    /\ total_input_tokens = 0
    /\ total_output_tokens = 0
    /\ warnings = <<>>
    /\ server_ready = FALSE
    /\ hpc = "idle"
    /\ threads = <<>>
    /\ invocations = 0
    /\ EMBEDDER_ENDPOINT_ID = "endpoint"
    /\ RUNPOD_API_KEY = "key"
    /\ EMBEDDING_BATCH_SIZE = MaxBatchSize
    /\ EMBEDDING_MAX_CONCURRENT = MaxConcurrent
    /\ EMBEDDING_TIMEOUT = MaxTimeout
    /\ opc = "idle"
    /\ chunks = <<>>
    /\ batches = <<>>
    /\ jobs = <<>>
    /\ pending_jobs = <<>>
    /\ check_jobs = <<>>
    /\ cursor = 1
    /\ elapsed = 0
    /\ remote = <<>>
    /\ submitLog = <<>>
    /\ iterQueries = <<>>
    /\ cancelLog = <<>>
    /\ cancelFailed = FALSE
    /\ firstRun = [done |-> FALSE, completed |-> FALSE, vectors |-> <<>>]
    /\ failed_count = 0
    /\ all_vectors = <<>>

NextGen ==
    \/ \E n \in 0..MaxContexts, mc \in 1..MaxGenConcurrent, r \in 0..MaxRetries :
          GenBatchCall(n, mc, r)
    \/ \E c \in 1..MaxContexts : TaskAcquire(c)
    \/ \E c \in 1..MaxContexts, ok \in BOOLEAN : TaskAttempt(c, ok)
    \/ BatchConsume
    \/ BatchReturn

\* ------------------------------------------------- ingest handler: steps
\* The server processes started by the handler that are alive.
Alive == {t \in 1..Len(threads) : threads[t].proc = "alive"}

\* A handler invocation reaches "if not server_ready": with the flag set it
\* goes on to the ingest call and returns; without it, it starts a
\* run_rust_server thread, which starts a server process (Popen), and joins
\* the thread for 15 seconds.
HandlerInvoke ==
    /\ hpc = "idle"
    /\ invocations < MaxInvocations
    /\ invocations' = invocations + 1
    /\ IF server_ready
       THEN UNCHANGED <<hpc, threads>>
       ELSE /\ threads' = Append(threads, [st |-> "polling", proc |-> "alive",
                                           attempts |-> 0])
            /\ hpc' = "joining"
    /\ UNCHANGED <<embedVars, orchVars, genVars, server_ready>>

\* The health request of thread t is answered with 200, by whichever server
\* process listens: the flag is set and the thread returns.
ThreadHealthy(t) ==
    /\ t \in 1..Len(threads)
    /\ threads[t].st = "polling"
    /\ Alive # {}
    /\ server_ready' = TRUE
    /\ threads' = [threads EXCEPT ![t].st = "ended"]
    /\ UNCHANGED <<embedVars, orchVars, genVars, hpc, invocations>>

\* Thread t finds that server_process, the process started last, has
\* exited: it reports the crash and returns.
ThreadSeesCrash(t) ==
    /\ t \in 1..Len(threads)
    /\ threads[t].st = "polling"
    /\ threads[Len(threads)].proc = "dead"
    /\ threads' = [threads EXCEPT ![t].st = "ended"]
    /\ UNCHANGED <<embedVars, orchVars, genVars, server_ready, hpc, invocations>>

\* A health request of thread t goes unanswered and the thread sleeps; after
\* the last attempt it gives up, leaving its process as it is.
ThreadWaits(t) ==
    /\ t \in 1..Len(threads)
    /\ threads[t].st = "polling"
    /\ threads' = [threads EXCEPT
                      ![t].attempts = @ + 1,
                      ![t].st = IF threads[t].attempts + 1 >= MaxAttempts
                                THEN "ended" ELSE "polling"]
    /\ UNCHANGED <<embedVars, orchVars, genVars, server_ready, hpc, invocations>>

\* The server process of thread t exits on its own.
ProcessExits(t) ==
    /\ t \in 1..Len(threads)
    /\ threads[t].proc = "alive"
    /\ threads' = [threads EXCEPT ![t].proc = "dead"]
    /\ UNCHANGED <<embedVars, orchVars, genVars, server_ready, hpc, invocations>>

\* join returns because the thread has ended: the handler goes on to the
\* ingest call when the flag is set and returns an error otherwise.
HandlerJoined ==
    /\ hpc = "joining"
    /\ threads[Len(threads)].st = "ended"
    /\ hpc' = "idle"
    /\ UNCHANGED <<embedVars, orchVars, genVars, server_ready, threads, invocations>>

\* join returns after its 15 seconds while the thread is still polling: an
\* attempt takes between half a second and a second and a half, so that at
\* least a third of the attempts have been made and up to two thirds may be
\* left. The same test on the flag follows, and the handler returns.
HandlerJoinTimeout ==
    /\ hpc = "joining"
    /\ threads[Len(threads)].st = "polling"
    /\ threads[Len(threads)].attempts * 3 >= MaxAttempts
    /\ hpc' = "idle"
    /\ UNCHANGED <<embedVars, orchVars, genVars, server_ready, threads, invocations>>

\* The ingest worker before its first job; the other workers idle as shipped.
InitIngest ==
    /\ min_batch_size = DefaultMinBatch
    /\ max_batch_size = DefaultMaxBatch
    /\ adaptive_batching = TRUE
    /\ current_batch_size = DefaultMinBatch
    /\ failAbove = LongTexts
    /\ stack = <<>>
    /\ outcome = "idle"
    /\ result = <<>>
    /\ input = <<>>
    /\ startBatch = DefaultMinBatch
    /\ calls = 0
    /\ primCalls = 0
    /\ primFailed = FALSE
    /\ pressured = FALSE
    /\ mem = [safe |-> TRUE, gc |-> FALSE]
    /\ lastPrim = [size |-> 0, cur |-> 0, ok |-> TRUE]
    /\ forced = FALSE
    \* the generation worker and the ingest handler, idle
    /\ max_concurrent = 1
    /\ max_retries = DefaultMaxRetries
    /\ semaphore = 1
    /\ gpc = "idle"
    /\ contexts = <<>>
    /\ tasks = <<>>
    /\ completions = <<>>
    /\ documented_symbols = <<>>
    /\ total_input_tokens = 0
    /\ total_output_tokens = 0
    /\ warnings = <<>>
    /\ server_ready = FALSE
    /\ hpc = "idle"
    /\ threads = <<>>
    /\ invocations = 0
    /\ EMBEDDER_ENDPOINT_ID = "endpoint"
    /\ RUNPOD_API_KEY = "key"
    /\ EMBEDDING_BATCH_SIZE = MaxBatchSize
    /\ EMBEDDING_MAX_CONCURRENT = MaxConcurrent
    /\ EMBEDDING_TIMEOUT = MaxTimeout
    /\ opc = "idle"
    /\ chunks = <<>>
    /\ batches = <<>>
    /\ jobs = <<>>
    /\ pending_jobs = <<>>
    /\ check_jobs = <<>>
    /\ cursor = 1
    /\ elapsed = 0
    /\ remote = <<>>
    /\ submitLog = <<>>
    /\ iterQueries = <<>>
    /\ cancelLog = <<>>
    /\ cancelFailed = FALSE
    /\ firstRun = [done |-> FALSE, completed |-> FALSE, vectors |-> <<>>]
    /\ failed_count = 0
    /\ all_vectors = <<>>

NextIngest ==
    \/ HandlerInvoke
    \/ \E t \in 1..MaxInvocations : ThreadHealthy(t)
    \/ \E t \in 1..MaxInvocations : ThreadSeesCrash(t)
    \/ \E t \in 1..MaxInvocations : ThreadWaits(t)
    \/ \E t \in 1..MaxInvocations : ProcessExits(t)
    \/ HandlerJoined
    \/ HandlerJoinTimeout

\* The embedding worker alone.
SpecEmbed == InitEmbed /\ [][NextEmbed]_vars

\* The embedding worker as shipped, with a long call.
SpecEmbedLong == InitEmbedLong /\ [][NextEmbedLong]_vars

\* The embedding worker, whose running calls are not suspended for ever.
SpecEmbedFair == InitEmbed /\ [][NextEmbed]_vars /\ WF_vars(EmbedRuns)

\* The embedding worker on inputs of ten sub-batches.
SpecEmbedGc == InitEmbedGc /\ [][NextEmbedGc]_vars

\* The generation worker alone.
SpecGen == InitGen /\ [][NextGen]_vars

\* The ingest handler alone.
SpecIngest == InitIngest /\ [][NextIngest]_vars

\* The orchestrator alone.
SpecOrch == InitOrch /\ [][NextOrch]_vars

\* The orchestrator against a prompt endpoint.
SpecOrchPrompt == InitOrch /\ [][NextOrchPrompt]_vars

\* The orchestrator run twice against a deterministic endpoint.
SpecOrchTwice == InitOrch /\ [][NextOrchTwice]_vars

\* ----------------------------------------------------------------- claims
EmbedEnded == stack = <<>> /\ outcome \in {"returned", "raised"}

\* The primitive fails exactly on more than failAbove texts.
Threshold == failAbove # Arbitrary

\* C1: when no _embed_batch call fails, embed on a non-empty list returns
\* exactly one vector per input text, in input order.
C1_OneVectorPerText ==
    (EmbedEnded /\ outcome = "returned" /\ ~primFailed /\ input # <<>>)
        => /\ Len(result) = Len(input)
           /\ \A j \in 1..Len(input) : result[j] = Vec(input[j])

\* C2: current_batch_size stays within [min_batch_size, max_batch_size] in
\* every state, at construction and after every grow or shrink.
C2_BatchSizeInRange ==
    /\ min_batch_size <= current_batch_size
    /\ current_batch_size <= max_batch_size

\* C2 witness: an embed call has both grown and shrunk the batch size and
\* left it strictly inside the range.
C2_Witness ==
    /\ EmbedEnded
    /\ primFailed
    /\ primCalls > 1
    /\ current_batch_size # startBatch
    /\ min_batch_size < current_batch_size
    /\ current_batch_size < max_batch_size

\* C3: with a primitive that fails exactly on more than k >= min_batch_size
\* texts, embed on n > k texts returns and leaves current_batch_size <= k.
C3_SettlesBelowThreshold ==
    (EmbedEnded /\ Threshold /\ failAbove >= min_batch_size
       /\ Len(input) > failAbove)
        => (outcome = "returned" /\ current_batch_size <= failAbove)

\* C4: embed([]) returns the empty result with no _embed_batch call and
\* leaves current_batch_size unchanged.
C4_EmptyInputNoCall ==
    (EmbedEnded /\ input = <<>>)
        => /\ outcome = "returned"
           /\ result = <<>>
           /\ primCalls = 0
           /\ current_batch_size = startBatch

\* C5: embed on a non-empty list raises only when the failing _embed_batch call was made with
\* current_batch_size already at min_batch_size; a failure at a larger batch
\* size is retried, not raised.
C5_RaisesOnlyAtMin ==
    (EmbedEnded /\ outcome = "raised" /\ input # <<>>)
        => lastPrim.cur = min_batch_size

\* --------------------------------------------------- orchestrator claims
\* The submit loop is over.
Submitted == opc \in {"poll", "query", "collect", "done"}

\* Every submit_job call returned a job id.
AllSubmitsOk == \A j \in 1..Len(remote) : remote[j] # "NONE"

\* ceil(n / size), as the least number of batches of size that hold n chunks.
Ceil(n, size) == CHOOSE k \in 0..n : k * size >= n /\ (k = 0 \/ (k - 1) * size < n)

\* The sizes of the batches of a partition.
Sizes(bs) == [k \in 1..Len(bs) |-> Len(bs[k])]

\* C6: n > 0 chunks are split into ceil(n / EMBEDDING_BATCH_SIZE) consecutive
\* batches, all of EMBEDDING_BATCH_SIZE chunks except possibly the last, whose
\* concatenation is the input; batch i is named <job_prefix>_batch_<i> and has
\* exactly one job record; 10 chunks at batch size 3 give sizes 3, 3, 3, 1.
C6_Partition ==
    /\ (Submitted /\ chunks # <<>>) =>
          /\ Len(batches) = Ceil(Len(chunks), EMBEDDING_BATCH_SIZE)
          /\ Len(jobs) = Len(batches)
          /\ \A k \in 1..Len(batches) :
                /\ k < Len(batches) => Len(batches[k]) = EMBEDDING_BATCH_SIZE
                /\ Len(batches[k]) >= 1
                /\ Len(batches[k]) <= EMBEDDING_BATCH_SIZE
                /\ jobs[k].batch_id = <<"job_prefix", "_batch_", k - 1>>
                /\ jobs[k].chunk_ids = [c \in 1..Len(batches[k]) |-> batches[k][c].chunk_id]
          /\ Vstack(batches) = chunks
    /\ Sizes(Batches(Chunks(10), 3)) = <<3, 3, 3, 1>>

\* C6 witness: five chunks at batch size two were submitted as three jobs, the
\* last of one chunk.
C6_Witness ==
    /\ opc = "done"
    /\ Len(chunks) = 5
    /\ EMBEDDING_BATCH_SIZE = 2
    /\ Len(jobs) = 3
    /\ jobs[3].chunk_ids = <<5>>

\* C7: no polling iteration issues more than EMBEDDING_MAX_CONCURRENT status
\* queries.
C7_QueryCap == Len(iterQueries) <= EMBEDDING_MAX_CONCURRENT

\* C7 witness: an iteration has used its whole window while more jobs than
\* the window holds are pending.
C7_Witness ==
    /\ opc = "query"
    /\ Len(iterQueries) = EMBEDDING_MAX_CONCURRENT
    /\ Len(pending_jobs) > EMBEDDING_MAX_CONCURRENT

\* C8: when every submit succeeded and every job stayed in progress until the
\* deadline, the call returns no vector, counts every batch as failed and has
\* sent a cancel request for every job.
C8_AllPendingAtDeadline ==
    (opc = "done" /\ chunks # <<>> /\ AllSubmitsOk
       /\ (\A j \in 1..Len(remote) : remote[j] = "RUNNING"))
        => /\ all_vectors = <<>>
           /\ failed_count = Len(batches)
           /\ \A j \in 1..Len(jobs) :
                 \E k \in 1..Len(cancelLog) : cancelLog[k] = jobs[j].job_id

\* C8 witness: several jobs were polled, none ever finished, and the call
\* returned after the deadline.
C8_Witness ==
    /\ opc = "done"
    /\ AllSubmitsOk
    /\ Len(jobs) >= 2
    /\ (\A j \in 1..Len(remote) : remote[j] = "RUNNING")
    /\ EMBEDDING_TIMEOUT > 0
    /\ elapsed >= EMBEDDING_TIMEOUT
    /\ Len(cancelLog) = Len(jobs)

\* The chunk ids of a list of vectors.
VectorIds(vs) == {vs[k].chunk_id : k \in 1..Len(vs)}

\* C9: when every submit succeeded and the endpoint finished every job before
\* the deadline (against the prompt endpoint: before polling began, every
\* status query answered; each completed payload one vector per chunk), the
\* failed count is the number
\* of jobs the endpoint failed and the returned vectors carry exactly the
\* chunk ids of the jobs it completed, for every EMBEDDING_MAX_CONCURRENT >= 1.
C9_CountsMatchRemote ==
    (opc = "done" /\ chunks # <<>> /\ AllSubmitsOk
       /\ EMBEDDING_MAX_CONCURRENT >= 1 /\ EMBEDDING_TIMEOUT > 0
       /\ (\A j \in 1..Len(remote) : remote[j] \in {"COMPLETED", "FAILED"})
       /\ (\A j \in 1..Len(jobs) :
             jobs[j].status = "completed"
                => jobs[j].result = VectorsOutput(jobs[j].chunk_ids)))
        => /\ failed_count = Cardinality({j \in 1..Len(remote) : remote[j] = "FAILED"})
           /\ VectorIds(all_vectors) =
                 UNION {{jobs[j].chunk_ids[c] : c \in 1..Len(jobs[j].chunk_ids)} :
                          j \in {i \in 1..Len(remote) : remote[i] = "COMPLETED"}}

\* C10: submit_job is called exactly once per batch, in order and never
\* again; a batch whose submit call failed has a failed job with the captured
\* error and no job id, and the batches after it are submitted all the same.
C10_SubmitOncePerBatch ==
    /\ submitLog = [k \in 1..Len(submitLog) |-> k - 1]
    /\ Len(jobs) = Len(submitLog)
    /\ Submitted => Len(submitLog) = Len(batches)
    /\ \A j \in 1..Len(jobs) :
          remote[j] = "NONE"
             => /\ jobs[j].status = "failed"
                /\ jobs[j].error = "SubmitError"
                /\ jobs[j].job_id = EmptyJobId

\* C11: embed_chunks_serverless never raises, whatever the submit calls, the
\* status queries, the cancel calls and the deadline do.
C11_NeverRaises == opc # "raised"

\* C11 witness: a call has returned although a submit call raised, a job was
\* reported cancelled by the endpoint, the deadline passed with a job pending
\* and its cancel request failed.
C11_Witness ==
    /\ opc = "done"
    /\ \E j \in 1..Len(remote) : remote[j] = "NONE"
    /\ \E j \in 1..Len(jobs) : jobs[j].error = "Job CANCELLED"
    /\ \E j \in 1..Len(jobs) : jobs[j].error = "Timeout"
    /\ cancelFailed

\* C10 witness: the first submit failed, later batches were submitted and
\* polled, and the call has returned.
C10_Witness ==
    /\ opc = "done"
    /\ Len(jobs) = 3
    /\ remote[1] = "NONE"
    /\ remote[2] # "NONE"
    /\ jobs[2].status = "completed"
    /\ jobs[1].error = "SubmitError"

\* C12: once the polling loop is over, every job that was pending at its exit
\* is failed with error "Timeout" and has exactly one cancel request, no other
\* cancel request was made, and no job is pending, up to the return.
C12_TimeoutsHandled ==
    opc \in {"collect", "done"}
        => /\ \A j \in 1..Len(jobs) : jobs[j].status # "pending"
           /\ \A p \in 1..Len(pending_jobs) :
                 /\ jobs[pending_jobs[p]].status = "failed"
                 /\ jobs[pending_jobs[p]].error = "Timeout"
                 /\ Cardinality({k \in 1..Len(cancelLog) :
                        cancelLog[k] = jobs[pending_jobs[p]].job_id}) = 1
           /\ Len(cancelLog) = Len(pending_jobs)

\* C12 witness: the deadline passed with two jobs pending while another job
\* had completed, and the call has returned.
C12_Witness ==
    /\ opc = "done"
    /\ Len(pending_jobs) = 2
    /\ EMBEDDING_TIMEOUT > 0
    /\ elapsed >= EMBEDDING_TIMEOUT
    /\ \E j \in 1..Len(jobs) : jobs[j].status = "completed"

\* C13: the value returned to the caller carries the failed-batch count next
\* to the vectors.
C13_ReturnCarriesFailedCount ==
    (opc = "done" /\ chunks # <<>>)
        => /\ "failed_batch_count" \in DOMAIN ReturnValue
           /\ ReturnValue.failed_batch_count = failed_count
           /\ ReturnValue.vectors = all_vectors

\* The vectors of vs that belong to the chunks of job, in the order of vs.
RECURSIVE OfBatch(_, _)
OfBatch(vs, job) ==
    IF vs = <<>> THEN <<>>
    ELSE (IF \E c \in 1..Len(job.chunk_ids) : job.chunk_ids[c] = Head(vs).chunk_id
          THEN <<Head(vs)>> ELSE <<>>) \o OfBatch(Tail(vs), job)

\* C14: two runs on the same chunks against an endpoint that accepts every
\* submit and completes every job, with the same payload, before polling
\* begins, return the same set of vectors, in the same order within each batch.
C14_SameVectorsTwice ==
    (opc = "done" /\ firstRun.done /\ firstRun.completed
       /\ (\A j \in 1..Len(remote) : remote[j] = "COMPLETED"))
        => /\ {all_vectors[k] : k \in 1..Len(all_vectors)}
                = {firstRun.vectors[k] : k \in 1..Len(firstRun.vectors)}
           /\ \A j \in 1..Len(jobs) :
                 OfBatch(all_vectors, jobs[j]) = OfBatch(firstRun.vectors, jobs[j])

\* C15: when every job stays pending, the call returns no later than one
\* poll interval after the deadline.
C15_ReturnsByDeadlinePlusInterval ==
    (opc = "done" /\ chunks # <<>> /\ AllSubmitsOk
       /\ (\A j \in 1..Len(remote) : remote[j] = "RUNNING"))
        => elapsed <= EMBEDDING_TIMEOUT + PollInterval

\* C16: without an endpoint id or an API key the embedding step ends with an
\* error, and with both it never raises.
C16_RaisesOnlyUnconfigured ==
    /\ (opc # "idle" /\ ~Configured) => opc = "error"
    /\ Configured => opc \notin {"error", "raised"}

\* ------------------------------------------------ embedding worker, steps
\* This step made a _embed_batch call that returned.
PrimSucceeds == primCalls' = primCalls + 1 /\ lastPrim'.ok

\* This step made the _embed_batch call of the direct path, and it raised.
DirectFails ==
    /\ stack # <<>>
    /\ Top.pc = "start"
    /\ primCalls' = primCalls + 1
    /\ ~lastPrim'.ok

\* This step made embed call itself on the same input.
Retries == Len(stack') = Len(stack) + 1 /\ stack'[Len(stack')].texts = Top.texts

\* C17: with adaptive batching on, a _embed_batch call that succeeds at
\* current_batch_size = c, in the direct path or on a sub-batch, leaves
\* current_batch_size = min(c + 4, max_batch_size).
C17_GrowOnSuccess ==
    [][(adaptive_batching /\ PrimSucceeds)
          => current_batch_size' = Min(current_batch_size + 4, max_batch_size)]_vars

\* C17 witness: a sub-batch has succeeded at a batch size that could grow by
\* the whole step, and one that could only grow up to max_batch_size has too.
C17_Witness ==
    /\ adaptive_batching
    /\ stack # <<>>
    /\ Top.pc = "loop"
    /\ Top.all # <<>>
    /\ lastPrim.ok
    /\ primCalls >= 2
    /\ current_batch_size = max_batch_size
    /\ lastPrim.cur + GrowStep > max_batch_size
    /\ lastPrim.cur < max_batch_size
    /\ startBatch + GrowStep < max_batch_size

\* C18: when _embed_batch raises in the direct path at current_batch_size = c,
\* the batch size becomes max(c // 2, min_batch_size) and embed retries the
\* same input exactly when that value is below c and below len(texts);
\* otherwise the failure reaches the caller.
C18_RetryIffShrunkBelowLen ==
    [][DirectFails
          => LET c == current_batch_size
                 shrunk == Max(c \div 2, min_batch_size)
             IN /\ Retries <=> (shrunk < c /\ shrunk < Len(Top.texts))
                /\ Retries => current_batch_size' = shrunk
                /\ ~Retries => outcome' = "raised"]_vars

\* C19: every _embed_batch call receives at most as many texts as
\* current_batch_size is worth when the call is made.
C19_CallWithinBatchSize == lastPrim.size <= lastPrim.cur

\* C19 witness: inside the sub-batch loop, after the batch size grew past the
\* step of the loop, a _embed_batch call took a full sub-batch of the new size.
C19_Witness ==
    /\ stack # <<>>
    /\ Top.pc = "loop"
    /\ Top.all # <<>>
    /\ lastPrim.cur > Top.step
    /\ lastPrim.size = lastPrim.cur
    /\ lastPrim.size > 1

\* This step took the memory-pressure branch of the sub-batch loop.
PressureStep ==
    /\ stack # <<>>
    /\ Top.pc = "loop"
    /\ Len(stack') = Len(stack) + 1

\* The memory-pressure branch itself: it shrinks the batch size and embeds
\* the current sub-batch, and nothing else, recursively, and the vectors
\* collected so far stay.
PressureStepShrinksAndRecurses ==
    [][PressureStep
          => /\ current_batch_size'
                  = (IF adaptive_batching
                     THEN Max(current_batch_size \div 2, min_batch_size)
                     ELSE current_batch_size)
             /\ stack'[Len(stack')].texts = Chunk(Top, current_batch_size)
             /\ stack'[Len(stack)].all = Top.all]_vars

\* C20: when a call of embed took the memory-pressure branch and no
\* _embed_batch call failed, the call returns (it does not abort) and every
\* text of the input has its vector in the result.
C20_PressureKeepsAll ==
    (EmbedEnded /\ pressured /\ ~primFailed)
        => /\ outcome = "returned"
           /\ \A j \in 1..Len(input) :
                 \E k \in 1..Len(result) : result[k] = Vec(input[j])

\* This step is the direct path of embed: the frame on top is at its start
\* and its input fits in current_batch_size.
DirectPath ==
    /\ stack # <<>>
    /\ Top.pc = "start"
    /\ Len(Top.texts) <= current_batch_size

\* C21: in the direct path (len(texts) <= current_batch_size) embed makes
\* the _embed_batch call on the whole input whether the memory check reads
\* safe or unsafe; an unsafe reading runs gc.collect() and nothing else.
C21_UnsafeReadingOnlyReclaims ==
    [][DirectPath
          => /\ primCalls' = primCalls + 1
             /\ lastPrim'.size = Len(Top.texts)
             /\ mem'.gc <=> ~mem'.safe]_vars

\* C21 witness: a call of embed went through the direct path with an unsafe
\* reading, made its one _embed_batch call on the whole input and returned
\* the vectors.
C21_Witness ==
    /\ EmbedEnded
    /\ outcome = "returned"
    /\ ~pressured
    /\ ~mem.safe
    /\ mem.gc
    /\ primCalls = 1
    /\ lastPrim.ok
    /\ Len(input) > 1
    /\ lastPrim.size = Len(input)
    /\ result = EmbedBatch(input)

\* max(c // 2, min_batch_size).
Shrunk(c) == Max(c \div 2, min_batch_size)

\* k shrink steps in a row, from c.
RECURSIVE ShrinkTimes(_, _)
ShrinkTimes(c, k) == IF k = 0 THEN c ELSE ShrinkTimes(Shrunk(c), k - 1)

\* The except clauses a failure of this step's _embed_batch call runs
\* through: the one around the call, and, when the failure reaches the
\* caller, the one of every sub-batch loop that is waiting for a recursive
\* call.
ExceptClauses ==
    IF stack' # <<>> THEN 1
    ELSE 1 + Cardinality({j \in 1..(Len(stack) - 1) : stack[j].pc = "chunk_wait"})

C23_PressureNeverSurfaced == (EmbedEnded /\ ~primFailed) => outcome = "returned"

\* C23 witness: a call of embed took the memory-pressure branch, read unsafe
\* again in the direct path of the recursive call, and returned.
C23_Witness ==
    /\ EmbedEnded
    /\ outcome = "returned"
    /\ pressured
    /\ ~primFailed
    /\ ~mem.safe
    /\ primCalls >= 2
    /\ Len(result) = Len(input)

\* ------------------------------------------- orchestrator, polling steps
\* Everything a status query can come back with; RAISE is a query that raises.
StatusValues == {"IN_QUEUE", "IN_PROGRESS", "UNKNOWN", "COMPLETED", "FAILED",
                 "CANCELLED", "TIMED_OUT", "RAISE"}

\* The job a status query is claimed to leave.
JobAfterStatus(job, status, output) ==
    CASE status = "COMPLETED" ->
            [job EXCEPT !.status = "completed", !.result = output]
      [] status = "FAILED" ->
            [job EXCEPT !.status = "failed", !.error = "RemoteError"]
      [] status = "CANCELLED" ->
            [job EXCEPT !.status = "failed", !.error = "Job CANCELLED"]
      [] status = "TIMED_OUT" ->
            [job EXCEPT !.status = "failed", !.error = "Job TIMED_OUT"]
      [] OTHER -> job

\* The next status query of the iteration is due.
QueryDue == opc = "query" /\ cursor <= Len(check_jobs)

\* This step is a status query.
QueryStep == QueryDue /\ cursor' = cursor + 1

\* C24: the job a status query is made for is pending; COMPLETED makes it
\* completed with the output as its result, FAILED makes it failed with the
\* remote error, CANCELLED and TIMED_OUT make it failed with "Job <status>",
\* and every other status, and a query that raises, leave it as it was:
\* pending, result and error untouched. Each query changes its job in one
\* of these ways, by a status the endpoint can answer, and no other job.
C24_StatusMapping ==
    /\ [](QueryDue
            => LET job == jobs[check_jobs[cursor]]
               IN /\ job.status = "pending"
                  /\ \A status \in StatusValues, output \in Outputs(job) :
                        MapStatus(job, status, output)
                           = JobAfterStatus(job, status, output))
    /\ [][QueryStep
            => LET j == check_jobs[cursor]
               IN \E status \in StatusResponses(remote[j]),
                     output \in Outputs(jobs[j]) :
                     jobs' = [jobs EXCEPT ![j] = JobAfterStatus(@, status, output)]]_vars

\* C24 witness: in one call a job was queried and completed with its
\* vectors, another was reported TIMED_OUT by the endpoint, and a third was
\* queried and is still pending.
C24_Witness ==
    /\ opc = "query"
    /\ Len(jobs) = 3
    /\ \E j \in 1..3 : /\ jobs[j].status = "completed"
                        /\ jobs[j].result = VectorsOutput(jobs[j].chunk_ids)
    /\ \E j \in 1..3 : jobs[j].status = "failed" /\ jobs[j].error = "Job TIMED_OUT"
    /\ \E k \in 1..Len(iterQueries) :
          /\ jobs[iterQueries[k]].status = "pending"
          /\ jobs[iterQueries[k]].result = NoResult
          /\ jobs[iterQueries[k]].error = "None"

\* The jobs of js that are pending, as a set of positions in submission order.
PendingSet(js) == {j \in 1..Len(js) : js[j].status = "pending"}

\* The n earliest-submitted jobs of the set S, earliest first.
Earliest(S, n) ==
    CHOOSE s \in [1..n -> S] : /\ \A a, b \in 1..n : a < b => s[a] < s[b]
                               /\ \A x \in S : (\E a \in 1..n : s[a] = x)
                                                 \/ (\A a \in 1..n : s[a] < x)

\* This step begins a polling iteration.
IterationBegins == opc = "poll" /\ opc' = "query"

\* C25: a polling iteration takes as its slice the first
\* min(EMBEDDING_MAX_CONCURRENT, number of pending jobs) jobs pending at its
\* start, in submission order; its status queries go through that slice in
\* order and through nothing else; so a job is queried only if fewer than
\* EMBEDDING_MAX_CONCURRENT jobs submitted before it were pending.
C25_FirstPendingQueried ==
    /\ [][IterationBegins
            => LET P == PendingSet(jobs)
               IN check_jobs'
                     = Earliest(P, Min(EMBEDDING_MAX_CONCURRENT, Cardinality(P)))]_vars
    /\ [][QueryStep
            => /\ iterQueries' = Append(iterQueries, check_jobs[cursor])
               /\ check_jobs' = check_jobs
               /\ pending_jobs' = pending_jobs]_vars
    /\ [](opc = "query"
            => /\ iterQueries = SubSeq(check_jobs, 1, cursor - 1)
               /\ \A k \in 1..Len(iterQueries) :
                     Cardinality({p \in 1..Len(pending_jobs) :
                                     pending_jobs[p] < iterQueries[k]})
                        < EMBEDDING_MAX_CONCURRENT)

\* C25 witness: with a window of one and three jobs, the first job has
\* completed and the iteration has queried the second, and only it, while
\* the third is pending as well.
C25_Witness ==
    /\ opc = "query"
    /\ cursor > Len(check_jobs)
    /\ EMBEDDING_MAX_CONCURRENT = 1
    /\ Len(jobs) = 3
    /\ jobs[1].status = "completed"
    /\ iterQueries = <<2>>
    /\ pending_jobs = <<2, 3>>

\* The polling loop has not exited yet.
BeforeLoopExit == opc \in {"idle", "skipped", "submit", "poll", "query"}

\* C26: no cancel_job call is made before the polling loop has exited; the
\* calls made then are one for each job pending at that moment, in order, and
\* none for a job that was completed or failed, a failed submission included.
C26_CancelOnlyPendingAfterLoop ==
    /\ [](BeforeLoopExit => cancelLog = <<>>)
    /\ [][cancelLog' # cancelLog
            => /\ opc = "poll"
               /\ opc' = "collect"
               /\ ~(pending_jobs # <<>> /\ elapsed < EMBEDDING_TIMEOUT)
               /\ LET P == PendingSet(jobs)
                      order == Earliest(P, Cardinality(P))
                  IN cancelLog' = [k \in 1..Cardinality(P) |-> jobs[order[k]].job_id]]_vars
    /\ [](\A j \in 1..Len(jobs) :
             (\E k \in 1..Len(cancelLog) : cancelLog[k] = jobs[j].job_id)
                => /\ jobs[j].status = "failed"
                   /\ jobs[j].error = "Timeout"
                   /\ remote[j] # "NONE")

\* C26 witness: a call has returned with one job completed, one whose
\* submission failed and one that timed out, and its only cancel request
\* was for the last.
C26_Witness ==
    /\ opc = "done"
    /\ Len(jobs) = 3
    /\ \E j \in 1..3 : jobs[j].status = "completed"
    /\ \E j \in 1..3 : jobs[j].error = "SubmitError"
    /\ \E j \in 1..3 : jobs[j].error = "Timeout" /\ cancelLog = <<jobs[j].job_id>>

\* The job is in a final state.
Terminal(job) == job.status \in {"completed", "failed"}

\* C27: a job that is completed or failed keeps its status, result and error
\* for the rest of the call, and no status query is made for it; a status
\* only ever changes from pending to completed or from pending to failed.
C27_TerminalStates ==
    /\ [][\A j \in 1..Len(jobs) :
             /\ Len(jobs') >= Len(jobs)
             /\ Terminal(jobs[j]) => jobs'[j] = jobs[j]
             /\ jobs'[j].status # jobs[j].status
                   => jobs[j].status = "pending" /\ Terminal(jobs'[j])]_vars
    /\ [][QueryStep => ~Terminal(jobs[check_jobs[cursor]])]_vars
    /\ [](\A k \in 1..Len(check_jobs) :
             (opc = "query" /\ k >= cursor) => ~Terminal(jobs[check_jobs[k]]))

\* C27 witness: the first iteration left job 1 failed; the second iteration,
\* with room for two queries, has queried job 2 alone, which completed.
C27_Witness ==
    /\ opc = "query"
    /\ EMBEDDING_MAX_CONCURRENT = 2
    /\ Len(jobs) = 2
    /\ jobs[1].status = "failed"
    /\ jobs[1].error = "RemoteError"
    /\ pending_jobs = <<2>>
    /\ iterQueries = <<2>>
    /\ jobs[2].status = "completed"

\* The result vectors of the completed jobs of js, job after job.
RECURSIVE CompletedVectors(_)
CompletedVectors(js) ==
    IF js = <<>> THEN <<>>
    ELSE (IF Head(js).status = "completed" THEN Head(js).result.vectors ELSE <<>>)
         \o CompletedVectors(Tail(js))

\* C28: at aggregation the failed count is the number of jobs whose final
\* state is failed, and the returned vectors are the result vectors of the
\* jobs whose final state is completed, job after job, each in its own order.
C28_AggregationCounts ==
    (opc = "done" /\ chunks # <<>>)
        => /\ failed_count = Cardinality({j \in 1..Len(jobs) : jobs[j].status = "failed"})
           /\ all_vectors = CompletedVectors(jobs)

\* This step ends a polling iteration: the pending list is recomputed and
\* the suspension, if any, is taken.
IterationEnds == opc = "query" /\ opc' = "poll"

\* C29: submit_job is called once per batch in partition order, and every
\* one of these calls is made before the first status query; the status
\* queries of an iteration are all made before the suspension that ends it.
C29_SubmitsThenQueriesThenSleep ==
    /\ [][submitLog' # submitLog
            => /\ submitLog' = Append(submitLog, Len(submitLog))
               /\ Len(submitLog') <= Len(batches)
               /\ check_jobs = <<>>
               /\ iterQueries = <<>>]_vars
    /\ [][QueryStep
            => submitLog = [k \in 1..Len(batches) |-> k - 1]]_vars
    /\ [][IterationEnds
            => /\ iterQueries = check_jobs
               /\ iterQueries' = iterQueries
               /\ jobs' = jobs]_vars

\* C29 witness: three batches were submitted in order, the first iteration
\* made its two status queries and the suspension after it has been taken.
C29_Witness ==
    /\ opc = "poll"
    /\ submitLog = <<0, 1, 2>>
    /\ Len(iterQueries) = 2
    /\ iterQueries = check_jobs
    /\ pending_jobs # <<>>
    /\ elapsed = PollInterval

\* C30: the end of an iteration recomputes the pending list from the jobs
\* and suspends for one poll interval exactly when the list is not empty;
\* an iteration begins only while a job is pending, so that the iteration
\* that resolved the last pending job is followed by neither a suspension
\* nor another iteration.
C30_SleepIffPending ==
    /\ [][IterationEnds
            => LET P == PendingSet(jobs)
               IN /\ pending_jobs' = Earliest(P, Cardinality(P))
                  /\ (P # {}) => elapsed' = elapsed + PollInterval
                  /\ (P = {}) => elapsed' = elapsed]_vars
    /\ [][IterationBegins
            => PendingSet(jobs) # {} /\ pending_jobs = PendingOf(jobs)]_vars
    /\ [][(opc = "poll" /\ PendingSet(jobs) = {}) => opc' = "collect"]_vars

\* C30 witness: with a window of two and three jobs, the first iteration
\* left job 3 pending and was followed by one suspension; the second
\* resolved job 3 and was followed by none.
C30_Witness ==
    /\ opc = "poll"
    /\ EMBEDDING_MAX_CONCURRENT = 2
    /\ Len(jobs) = 3
    /\ \A j \in 1..3 : jobs[j].status = "completed"
    /\ iterQueries = <<3>>
    /\ pending_jobs = <<>>
    /\ elapsed = PollInterval

\* --------------------------------------------- embedding worker, the end
\* The number of shrink steps that take c down to min_batch_size.
RECURSIVE Halvings(_)
Halvings(c) == IF c <= min_batch_size THEN 0 ELSE 1 + Halvings(Shrunk(c))

\* The deepest the recursion of one embed call can get: the inputs of nested
\* calls never get longer, a call on the same input is a retry at a batch
\* size at least halved, and a call of the sub-batch loop is on a shorter,
\* non-empty input.
DepthBound == Max(Len(input), 1) * (1 + Halvings(max_batch_size))

\* C31: every call of embed comes to an end, by returning or by raising,
\* whatever the primitive and the memory checks do (a probe that always
\* reads unsafe included), and its recursion is bounded: a nested call is a
\* retry on the same input or a call on a shorter sub-batch, and the depth
\* stays within DepthBound.
C31_EmbedTerminates ==
    /\ [](/\ Len(stack) <= DepthBound
          /\ \A k \in 1..(Len(stack) - 1) :
                \/ /\ stack[k].pc = "retry_wait"
                   /\ stack[k + 1].texts = stack[k].texts
                \/ /\ stack[k].pc = "chunk_wait"
                   /\ stack[k + 1].texts # <<>>
                   /\ Len(stack[k + 1].texts) < Len(stack[k].texts))
    /\ (outcome = "running" ~> EmbedEnded)

\* C31 witness: a call of embed has returned after taking the
\* memory-pressure branch, reading unsafe again in the recursive call, and
\* retrying after a failure of the primitive.
C31_Witness ==
    /\ EmbedEnded
    /\ outcome = "returned"
    /\ pressured
    /\ primFailed
    /\ ~mem.safe
    /\ primCalls >= 3
    /\ Len(result) = Len(input)

\* ------------------------------------------- orchestrator, implicit claims
\* A cancel request was sent for the job.
Cancelled(job) == \E k \in 1..Len(cancelLog) : cancelLog[k] = job.job_id

C33_RecordsConsistent ==
    \A j \in 1..Len(jobs) :
       /\ jobs[j].status \in {"pending", "completed", "failed"}
       /\ jobs[j].status = "pending"
             => jobs[j].result = NoResult /\ jobs[j].error = "None"
       /\ jobs[j].status = "completed"
             => jobs[j].result # NoResult /\ jobs[j].error = "None"
       /\ jobs[j].status = "failed"
             => jobs[j].error # "None" /\ jobs[j].result = NoResult
       /\ remote[j] = "NONE"
             => jobs[j].job_id = EmptyJobId /\ jobs[j].status = "failed"
       /\ jobs[j].job_id = EmptyJobId => remote[j] = "NONE"

\* C33 witness: after a suspension, the call has a job whose submission
\* failed, a completed job, a job failed by the endpoint's answer and
\* none pending any more, before aggregation.
C33_Witness ==
    /\ opc = "poll"
    /\ elapsed >= PollInterval
    /\ Len(jobs) = 3
    /\ jobs[1].job_id = EmptyJobId
    /\ jobs[2].status = "completed"
    /\ jobs[2].result = ErrorOutput
    /\ jobs[3].status = "failed"
    /\ jobs[3].error = "Job CANCELLED"

\* ------------------------------------------------- generation worker claims
\* The coroutines whose generate_documentation call is in progress.
InProgress == {c \in 1..Len(tasks) : tasks[c].st = "calling"}

\* C34: at every moment at most max_concurrent generate_documentation calls
\* are in progress, over all the coroutines of a batch, however they
\* interleave, succeed, fail and retry.
C34_AtMostMaxConcurrentCalls ==
    /\ Cardinality(InProgress) <= max_concurrent
    /\ semaphore = max_concurrent - Cardinality(InProgress)

\* C34 witness: with max_concurrent = 2 and three contexts, two calls are in
\* progress, one of them after a failed attempt, and the third coroutine
\* waits at the semaphore.
C34_Witness ==
    /\ gpc = "running"
    /\ max_concurrent = 2
    /\ Len(tasks) = 3
    /\ Cardinality(InProgress) = 2
    /\ semaphore = 0
    /\ \E c \in InProgress : tasks[c].attempts >= 1
    /\ \E c \in 1..3 : tasks[c].st = "waiting"

\* The sum of f(c) over the contexts c in S.
RECURSIVE SumOver(_, _)
SumOver(S, f) ==
    IF S = {} THEN 0
    ELSE LET c == CHOOSE x \in S : TRUE IN f[c] + SumOver(S \ {c}, f)

\* The positions of the list at which x stands.
Positions(list, x) == {k \in 1..Len(list) : list[k] = x}

\* C35: generate_batch returns exactly one DocumentedSymbol per context,
\* whatever the completion order; a symbol whose generation failed is the
\* placeholder with tokens_used 0 and has exactly one warning, and the
\* totals are the sums of the input and of the output tokens of the symbols
\* that succeeded.
C35_OneSymbolPerContext ==
    gpc = "done"
        => LET succeeded == {c \in 1..Len(contexts) : tasks[c].ok}
           IN /\ Len(documented_symbols) = Len(contexts)
              /\ \A c \in 1..Len(contexts) :
                    /\ Cardinality({k \in 1..Len(documented_symbols) :
                           documented_symbols[k].symbol_id = contexts[c]}) = 1
                    /\ c \notin succeeded
                          => /\ \E k \in 1..Len(documented_symbols) :
                                   /\ documented_symbols[k].symbol_id = contexts[c]
                                   /\ documented_symbols[k].tokens_used = 0
                                   /\ documented_symbols[k].summary
                                         = "[Documentation generation failed"
                             /\ Cardinality(Positions(warnings, contexts[c])) = 1
              /\ total_input_tokens
                    = SumOver(succeeded, [c \in succeeded |-> InputTokens(contexts[c])])
              /\ total_output_tokens
                    = SumOver(succeeded, [c \in succeeded |-> OutputTokens(contexts[c])])

\* C35 witness: a batch of three has returned; the last context finished
\* first, one generation failed and two succeeded.
C35_Witness ==
    /\ gpc = "done"
    /\ Len(contexts) = 3
    /\ documented_symbols[1].symbol_id = 3
    /\ Len(warnings) = 1
    /\ ~tasks[2].ok
    /\ tasks[1].ok
    /\ tasks[3].ok
    /\ total_input_tokens = InputTokens(1) + InputTokens(3)

\* C36: one generate_documentation request is retried at most max_retries
\* times, for every max_retries >= 0, and a request that failed for good
\* ends as the failure placeholder of generate_single.
C36_RetriesWithinMaxRetries ==
    \A c \in 1..Len(tasks) :
       /\ tasks[c].attempts >= 1 => tasks[c].attempts - 1 <= max_retries
       /\ (tasks[c].st \in {"finished", "consumed"} /\ ~tasks[c].ok)
             => TaskResult(c).documented.summary = "[Documentation generation failed"

\* --------------------------------------------------- ingest handler claim
\* C37: over any sequence of handler invocations, one that follows a
\* timed-out start-up wait included, at most one server process started by
\* the handler is alive at any time.
C37_AtMostOneServer == Cardinality(Alive) <= 1

\* An iteration of the sub-batch loop whose _embed_batch call returns.
SubBatchProcessed ==
    /\ stack # <<>>
    /\ Top.pc = "loop"
    /\ primCalls' = primCalls + 1
    /\ lastPrim'.ok

\* The position of the running iteration among the iterations of its loop,
\* counted from 1.
SubBatchOrdinal == Top.i \div Top.step + 1

\* C38: in the sub-batched path the forced reclaim pass takes place after
\* every 10th sub-batch processed in the call and after no other one, also
\* when current_batch_size changes between sub-batches.
C38_ForcedGcEveryTenth ==
    [][SubBatchProcessed => (forced' <=> (SubBatchOrdinal % GcEvery = 0))]_vars

====
